---- MODULE Spec2Model ----
(***************************************************************************)
(* A model of goscrape: the pagination/extraction engine (Scraper.Scrape,  *)
(* New) and the PhantomJS fetcher (fetchScript, PhantomJSFetcher.Fetch).   *)
(*                                                                         *)
(* The engine is a sequential program that calls out to its collaborators  *)
(* (Fetcher, the HTML parser, DividePage, the Pieces' Extractors and       *)
(* NextPage).  Each call is one action; what the collaborator answers is   *)
(* chosen with \E from the answers its interface allows.  The variable     *)
(* log records every call made and the answer it got, in order.            *)
(***************************************************************************)
EXTENDS Integers, Sequences, FiniteSets, TLC

\* ------------------------------------------------------------------ bounds
\* The most pages one scrape visits.
MaxPages == 2
\* The most blocks the pages of one scrape hold in total.
MaxBlocks == 3

\* ------------------------------------------------------------- Go values
\* The nil error.
NoErr == "nil"
\* The nil *ScrapeResults and the nil *Scraper.
NilRes == [isNil |-> TRUE]
NilScraper == [isNil |-> TRUE]
NilConfig == [isNil |-> TRUE]
\* The nil interface{} an Extractor returns to omit its Piece.
NilValue == [isNil |-> TRUE]
\* map[string]interface{}{}
EmptyMap == [k \in {} |-> NilValue]

MapPut(m, k, v) == [x \in (DOMAIN m) \cup {k} |-> IF x = k THEN v ELSE m[x]]

\* ---------------------------------------------------------- the inputs
\* The URLs a page may link to.
URLS == {"u1", "u2"}
\* The URLs Scrape is called with: one of them (which one makes no
\* difference: Scrape never looks into a URL) or the empty string.
StartURLs == {"u1", ""}

PrepareErrs == {"prepare failed"}
FetchErrs == {"fetch failed A", "fetch failed B"}
ParseErrs == {"parse failed"}
ExtractErrs == {"extract failed A", "extract failed B"}

PieceA == [Name |-> "a", Selector |-> "."]
PieceB == [Name |-> "b", Selector |-> "s"]
PieceA2 == [Name |-> "a", Selector |-> "t"]
PieceNoName == [Name |-> "", Selector |-> "."]
PieceNoSel == [Name |-> "c", Selector |-> ""]

\* The Pieces lists a caller hands to New.
CallerPieces ==
    { <<>>, <<PieceA>>, <<PieceA, PieceB>>, <<PieceA, PieceA2>>,
      <<PieceNoName>>, <<PieceA, PieceNoSel>> }

\* The configs a caller hands to New: "nil" is a nil func, "fn" one of the
\* caller's own.
CallerConfigs ==
    [ Fetcher : {"fetcher"}, NextPage : {"nil", "fn"},
      DividePage : {"nil", "fn"}, Pieces : CallerPieces ]

\* ------------------------------------------------------------------- New
ErrNoPieces == "no pieces in the config"

\* A faulty variant of ValidatePieces: the Selector is not looked at.
RECURSIVE ValidatePiecesNoSelector(_, _, _)
ValidatePiecesNoSelector(pieces, i, seenNames) ==
    IF i > Len(pieces) THEN NoErr
    ELSE IF pieces[i].Name = ""
         THEN "no name provided for piece " \o ToString(i - 1)
    ELSE IF pieces[i].Name \in seenNames
         THEN "piece has a duplicate name " \o ToString(i - 1)
    ELSE ValidatePiecesNoSelector(pieces, i + 1, seenNames \cup {pieces[i].Name})

\* A faulty variant of ValidatePieces: the names seen are not looked at.
RECURSIVE ValidatePiecesNoSeen(_, _, _)
ValidatePiecesNoSeen(pieces, i, seenNames) ==
    IF i > Len(pieces) THEN NoErr
    ELSE IF pieces[i].Name = ""
         THEN "no name provided for piece " \o ToString(i - 1)
    ELSE IF pieces[i].Selector = ""
         THEN "no selector provided for piece " \o ToString(i - 1)
    ELSE ValidatePiecesNoSeen(pieces, i + 1, seenNames \cup {pieces[i].Name})

\* The validation loop of New: the first complaint about pieces[i..], given
\* the names seen before i; NoErr when there is none.
RECURSIVE ValidatePieces(_, _, _)
ValidatePieces(pieces, i, seenNames) ==
    IF i > Len(pieces) THEN NoErr
    ELSE IF pieces[i].Name = ""
         THEN "no name provided for piece " \o ToString(i - 1)
    ELSE IF pieces[i].Name \in seenNames
         THEN "piece has a duplicate name " \o ToString(i - 1)
    ELSE IF pieces[i].Selector = ""
         THEN "no selector provided for piece " \o ToString(i - 1)
    ELSE ValidatePieces(pieces, i + 1, seenNames \cup {pieces[i].Name})

clone(c) ==
    [ Fetcher |-> c.Fetcher, NextPage |-> c.NextPage,
      DividePage |-> c.DividePage, Pieces |-> c.Pieces ]

\* The funcs New fills in: a NextPage that returns "" and
\* DividePageBySelector("body").
FillFuncs(config) ==
    [ config EXCEPT
        !.NextPage = IF @ = "nil" THEN "default" ELSE @,
        !.DividePage = IF @ = "nil" THEN "body" ELSE @ ]

\* The Fetcher New fills in: a new HttpClientFetcher.
FillFetcher(config) ==
    [ config EXCEPT !.Fetcher = IF @ = "nil" THEN "HttpClientFetcher" ELSE @ ]

\* The defaults New fills in.
FillDefaults(config) == FillFetcher(FillFuncs(config))

New(c) ==
    IF Len(c.Pieces) = 0
    THEN [scraper |-> NilScraper, err |-> ErrNoPieces]
    ELSE IF ValidatePieces(c.Pieces, 1, {}) # NoErr
    THEN [scraper |-> NilScraper, err |-> ValidatePieces(c.Pieces, 1, {})]
    ELSE [scraper |-> [config |-> FillDefaults(clone(c))], err |-> NoErr]

\* The Scrapers New returns.
Scrapers == { New(c).scraper : c \in {cc \in CallerConfigs : New(cc).err = NoErr} }

\* ------------------------------------------------------------ selections
\* A *goquery.Selection, named by where it comes from: the page-th document
\* fetched, its block-th block (0: the whole document), narrowed by find
\* ("": not narrowed).
NoSel == [page |-> 0, block |-> 0, find |-> ""]
DocSelection(page) == [page |-> page, block |-> 0, find |-> ""]
BlockSelection(page, j) == [page |-> page, block |-> j, find |-> ""]
Find(sel, selector) == [sel EXCEPT !.find = selector]

\* What an Extractor makes of a selection when it returns a value.
ValueOf(piece, sel) == [piece |-> piece.Name, sel |-> sel]

\* ------------------------------------------------------------------ state
VARIABLES
    scraper,       \* the Scraper Scrape is called on
    spc,           \* where Scrape is
    url,           \* Scrape's url
    res,           \* Scrape's res
    results,       \* the page's block list being built
    blockResults,  \* the block's mapping being built
    page,          \* the number of the document at hand (1 for the first)
    blocks,        \* what DividePage returned for it
    bi,            \* the index of the block at hand
    pi,            \* the index of the Piece at hand
    ret,           \* what Scrape returned
    log,           \* the calls Scrape made, with their answers
    fpc,           \* where PhantomJSFetcher.Fetch is
    fret,          \* what Fetch returned
    nav,           \* the script's page.open: not called, loading, or its callback's status
    count,         \* the script's count
    renderTimeout, \* the script's renderTimeout: a timer's id, 0 while undefined
    forcedRenderTimeout, \* the script's forcedRenderTimeout, likewise
    timers,        \* the script's pending timers
    closed,        \* whether page.close() was called
    stdout,        \* what the script wrote to its standard output
    exited,        \* the exit code of the subprocess, -1 while it runs
    outstanding,   \* the browser's requests that have not completed
    renders,       \* for each run of doRender: which timer ran it, and count then
    last,          \* the handler of the script that ran last
    method,        \* the method Fetch was called with
    launched,      \* the subprocesses Fetch started
    cfg,           \* the caller's ScrapeConfig, New's c
    npc,           \* where New is
    nconfig,       \* New's config: the clone being filled in
    made,          \* the Fetchers New created
    nret,          \* what New returned
    aliased,       \* whether the caller's Pieces and the Scraper's are one array
    heap,          \* the backing arrays of the slices of a PhantomJSFetcher's calls
    pfargs,        \* the PhantomJSFetcher's args, a slice
    calls,         \* the Fetch calls made on that one PhantomJSFetcher
    xpc,           \* where the Extract call is
    extractor,     \* the PieceExtractor Extract is called on
    selection,     \* the selection Extract is called with
    xret,          \* what Extract returned
    xblock,        \* the blockResults of the Scrape that called Extract
    curr,          \* the case of TestLimitPages at hand, with the Paginator it limits
    lpc,           \* where collect is
    idx,           \* the limiting Paginator's count of the calls it passed on
    lurl,          \* collect's url
    check,         \* collect's results
    lcalls         \* the NextPage calls made on the limiting Paginator

scrapeVars ==
    <<scraper, spc, url, res, results, blockResults, page, blocks, bi, pi, ret, log>>

fetchVars ==
    <<fpc, fret, nav, count, renderTimeout, forcedRenderTimeout, timers, closed,
      stdout, exited, outstanding, renders, last>>

\* Fetch's argument and the subprocesses it started.
cmdVars == <<method, launched>>

newVars == <<cfg, npc, nconfig, made, nret, aliased>>

\* One PhantomJSFetcher and its Fetch calls.
pfVars == <<heap, pfargs, calls>>

\* One Extract call.
exVars == <<xpc, extractor, selection, xret, xblock>>

\* One limited Paginator and the calls of its NextPage.
lpVars == <<curr, lpc, idx, lurl, check, lcalls>>

libVars == <<pfVars, exVars, lpVars>>

vars == <<scrapeVars, fetchVars, cmdVars, newVars, libVars>>

NotReturned == [res |-> NilRes, err |-> "not returned"]

\* An entry of log.
Ev(op, pg) ==
    [ op |-> op, page |-> pg, method |-> "", url |-> "", sel |-> NoSel,
      piece |-> "", val |-> NilValue, err |-> NoErr, n |-> 0 ]

ScrapeInit ==
    /\ scraper \in Scrapers
    /\ spc = "idle"
    /\ url = ""
    /\ res = NilRes
    /\ results = <<>>
    /\ blockResults = EmptyMap
    /\ page = 0
    /\ blocks = <<>>
    /\ bi = 0
    /\ pi = 0
    /\ ret = NotReturned
    /\ log = <<>>

\* ------------------------------------------------------- Scrape's pieces
\* A faulty variant of ErrorReturn: return res, err
ErrorReturnPartial(r, e) == [res |-> r, err |-> e]

\* return nil, err (r: the results built so far, which are dropped)
ErrorReturn(r, e) == [res |-> NilRes, err |-> e]
\* return res, nil
GoodReturn(r) == [res |-> r, err |-> NoErr]

\* A faulty variant of AppendURL: the URL is put in front.
AppendURLInFront(urls, u) == <<u>> \o urls

\* A faulty variant of AppendURL: a URL already visited is not appended.
AppendURLUnlessVisited(urls, u) ==
    IF \E k \in 1 .. Len(urls) : urls[k] = u THEN urls ELSE Append(urls, u)

\* res.URLs = append(res.URLs, url)
AppendURL(urls, u) == Append(urls, u)
\* A faulty variant of AppendBlock: an empty mapping is not appended.
AppendBlockSkipEmpty(rs, br) == IF DOMAIN br = {} THEN rs ELSE Append(rs, br)

\* results = append(results, blockResults)
AppendBlock(rs, br) == Append(rs, br)
\* A faulty variant of AppendPage: the last page's list is overwritten.
AppendPageOverwrite(all, rs) ==
    IF all = <<>> THEN <<rs>> ELSE [all EXCEPT ![Len(all)] = rs]

\* res.Results = append(res.Results, results)
AppendPage(all, rs) == Append(all, rs)

\* The method Scrape fetches with.
FetchMethod == "GET"

\* A faulty variant of FetchFailed: if err == nil
FetchFailedInverted(e) == e = NoErr

\* if err != nil, after Fetch
FetchFailed(e) == e # NoErr

\* A faulty variant of ExtractFailed: the error counts only with a nil value.
ExtractFailedOnlyWithNil(out) == out.err # NoErr /\ out.val = NilValue

\* if err != nil, after Extract
ExtractFailed(out) == out.err # NoErr

\* A faulty variant of PieceSel: every Selector narrows, "." too.
PieceSelAlwaysFind(block, piece) == Find(block, piece.Selector)

\* sel := block; if piece.Selector != "." { sel = sel.Find(piece.Selector) }
PieceSel(block, piece) ==
    IF piece.Selector # "." THEN Find(block, piece.Selector) ELSE block

\* A faulty variant of StoreResult: a nil value is stored too.
StoreResultAlways(m, name, val) == MapPut(m, name, val)

\* if pieceResults == nil { continue }; blockResults[piece.Name] = pieceResults
StoreResult(m, name, val) ==
    IF val = NilValue THEN m ELSE MapPut(m, name, val)

\* A faulty variant of PieceLoopNext: break, not continue, on a nil value.
PieceLoopBreakOnNil(i, val, n) == IF val = NilValue THEN n + 1 ELSE i + 1

\* The index of the Piece the loop over Pieces takes after Piece i, whose
\* Extractor returned val, of n Pieces (n + 1: the loop is over).
PieceLoopNext(i, val, n) == i + 1

\* A faulty variant of LastBlock: the loop stops one block early.
LastBlockOffByOne(i, n) == i + 1 >= n

\* Whether the loop over the n blocks DividePage returned is over after
\* block i.
LastBlock(i, n) == i >= n

\* What a Piece's Extractor may return: a value or nil, with or without an error.
ExtractOutcomes(piece, sel) ==
    [ val : {NilValue, ValueOf(piece, sel)}, err : {NoErr} \cup ExtractErrs ]

\* The blocks of the pages divided so far.
BlocksSoFar ==
    LET RECURSIVE Sum(_)
        Sum(i) == IF i = 0 THEN 0
                  ELSE Sum(i - 1) + (IF log[i].op = "DividePage" THEN log[i].n ELSE 0)
    IN Sum(Len(log))

\* The body elements of a parsed document: one, or none when the document
\* is a frameset document (the parser gives such a document no body).
BodyElements == {0, 1}

\* How many blocks DividePage may return: any number for the caller's own
\* function; for DividePageBySelector("body"), one for each body element of
\* the document.
DivideCounts(config) ==
    IF config.DividePage = "body"
    THEN BodyElements
    ELSE 0 .. (MaxBlocks - BlocksSoFar)

\* A faulty variant of NextPageResults: the default NextPage finds URLs too.
NextPageResultsAny(config) ==
    IF Len(res.URLs) < MaxPages THEN URLS \cup {""} ELSE {""}

\* What NextPage may return: "" from the default, any URL or "" from the
\* caller's own.
NextPageResults(config) ==
    IF config.NextPage = "default" THEN {""}
    ELSE IF Len(res.URLs) < MaxPages THEN URLS \cup {""} ELSE {""}

\* ----------------------------------------------------------------- Scrape
\* A faulty variant of NoURL: the URL is not checked.
NoURLNever(u) == FALSE

\* if len(url) == 0
NoURL(u) == u = ""

\* Scrape(u): the check of the URL.
ScrapeCall ==
    /\ spc = "idle"
    /\ \E u \in StartURLs :
        /\ url' = u
        /\ log' = Append(log, [Ev("Scrape", 0) EXCEPT !.url = u])
        /\ IF NoURL(u)
           THEN /\ ret' = ErrorReturn(res, "no URL provided")
                /\ spc' = "done"
           ELSE /\ spc' = "prepare"
                /\ UNCHANGED ret
    /\ UNCHANGED <<scraper, res, results, blockResults, page, blocks, bi, pi>>
    /\ UNCHANGED <<fetchVars, cmdVars, newVars, libVars>>

\* A faulty variant of PrepareFailed: the error is ignored.
PrepareFailedNever(e) == FALSE

\* err != nil after Prepare
PrepareFailed(e) == e # NoErr

\* s.config.Fetcher.Prepare(), and res := &ScrapeResults{...}
Prepare ==
    /\ spc = "prepare"
    /\ \E e \in {NoErr} \cup PrepareErrs :
        /\ log' = Append(log, [Ev("Prepare", 0) EXCEPT !.err = e])
        /\ IF PrepareFailed(e)
           THEN /\ ret' = ErrorReturn(res, e)
                /\ spc' = "done"
                /\ UNCHANGED res
           ELSE /\ res' = [URLs |-> <<>>, Results |-> <<>>]
                /\ spc' = "fetch"
                /\ UNCHANGED ret
    /\ UNCHANGED <<scraper, url, results, blockResults, page, blocks, bi, pi>>
    /\ UNCHANGED <<fetchVars, cmdVars, newVars, libVars>>

\* resp, err := s.config.Fetcher.Fetch("GET", url)
Fetch ==
    /\ spc = "fetch"
    /\ \E e \in {NoErr} \cup FetchErrs :
        /\ log' = Append(log, [Ev("Fetch", page + 1) EXCEPT
                                 !.method = FetchMethod, !.url = url, !.err = e])
        /\ IF FetchFailed(e)
           THEN /\ ret' = ErrorReturn(res, e)
                /\ spc' = "done"
                /\ UNCHANGED page
           ELSE /\ page' = page + 1
                /\ spc' = "parse"
                /\ UNCHANGED ret
    /\ UNCHANGED <<scraper, url, res, results, blockResults, blocks, bi, pi>>
    /\ UNCHANGED <<fetchVars, cmdVars, newVars, libVars>>

\* A faulty variant of ParseAndClose: the stream is closed after a
\* successful parse only.
ParseCloseOnSuccess(e, pg) ==
    IF e = NoErr THEN << [Ev("Parse", pg) EXCEPT !.err = e], Ev("Close", pg) >>
    ELSE << [Ev("Parse", pg) EXCEPT !.err = e] >>

\* doc, err := goquery.NewDocumentFromReader(resp); resp.Close()
ParseAndClose(e, pg) == << [Ev("Parse", pg) EXCEPT !.err = e], Ev("Close", pg) >>

\* doc, err := goquery.NewDocumentFromReader(resp); resp.Close();
\* res.URLs = append(res.URLs, url); results := []map[string]interface{}{}
Parse ==
    /\ spc = "parse"
    /\ \E e \in {NoErr} \cup ParseErrs :
        /\ log' = log \o ParseAndClose(e, page)
        /\ IF e # NoErr
           THEN /\ ret' = ErrorReturn(res, e)
                /\ spc' = "done"
                /\ UNCHANGED <<res, results>>
           ELSE /\ res' = [res EXCEPT !.URLs = AppendURL(@, url)]
                /\ results' = <<>>
                /\ spc' = "divide"
                /\ UNCHANGED ret
    /\ UNCHANGED <<scraper, url, blockResults, page, blocks, bi, pi>>
    /\ UNCHANGED <<fetchVars, cmdVars, newVars, libVars>>

\* s.config.DividePage(doc.Selection); with no block, the page's empty list
\* is appended at once.
DividePage ==
    /\ spc = "divide"
    /\ \E n \in DivideCounts(scraper.config) :
        /\ log' = Append(log, [Ev("DividePage", page) EXCEPT
                                 !.sel = DocSelection(page), !.n = n])
        /\ blocks' = [j \in 1 .. n |-> BlockSelection(page, j)]
        /\ IF n = 0
           THEN /\ res' = [res EXCEPT !.Results = AppendPage(@, results)]
                /\ spc' = "nextpage"
                /\ UNCHANGED <<blockResults, bi, pi>>
           ELSE /\ blockResults' = EmptyMap
                /\ bi' = 1
                /\ pi' = 1
                /\ spc' = "extract"
                /\ UNCHANGED res
    /\ UNCHANGED <<scraper, url, results, page, ret>>
    /\ UNCHANGED <<fetchVars, cmdVars, newVars, libVars>>

\* piece.Extractor.Extract(sel) for the Piece at hand, and what the loops do
\* with its answer up to the next call.
Extract ==
    /\ spc = "extract"
    /\ LET piece == scraper.config.Pieces[pi]
           sel == PieceSel(blocks[bi], piece)
           n == Len(scraper.config.Pieces)
       IN \E out \in ExtractOutcomes(piece, sel) :
           /\ log' = Append(log, [Ev("Extract", page) EXCEPT
                                    !.sel = sel, !.piece = piece.Name,
                                    !.val = out.val, !.err = out.err])
           /\ IF ExtractFailed(out)
              THEN /\ ret' = ErrorReturn(res, out.err)
                   /\ spc' = "done"
                   /\ UNCHANGED <<res, results, blockResults, bi, pi>>
              ELSE LET br == StoreResult(blockResults, piece.Name, out.val)
                       next == PieceLoopNext(pi, out.val, n)
                       rs == AppendBlock(results, br)
                   IN IF next <= n
                      THEN /\ blockResults' = br
                           /\ pi' = next
                           /\ UNCHANGED <<res, results, bi, spc, ret>>
                      ELSE IF ~LastBlock(bi, Len(blocks))
                      THEN /\ results' = rs
                           /\ blockResults' = EmptyMap
                           /\ bi' = bi + 1
                           /\ pi' = 1
                           /\ UNCHANGED <<res, spc, ret>>
                      ELSE /\ res' = [res EXCEPT !.Results = AppendPage(@, rs)]
                           /\ results' = rs
                           /\ blockResults' = br
                           /\ spc' = "nextpage"
                           /\ UNCHANGED <<bi, pi, ret>>
    /\ UNCHANGED <<scraper, url, page, blocks>>
    /\ UNCHANGED <<fetchVars, cmdVars, newVars, libVars>>

\* url = s.config.NextPage(doc.Selection), the loop's test, and return res, nil
NextPage ==
    /\ spc = "nextpage"
    /\ \E next \in NextPageResults(scraper.config) :
        /\ log' = Append(log, [Ev("NextPage", page) EXCEPT
                                 !.sel = DocSelection(page), !.url = next])
        /\ url' = next
        /\ IF next = ""
           THEN /\ ret' = GoodReturn(res)
                /\ spc' = "done"
           ELSE /\ spc' = "fetch"
                /\ UNCHANGED ret
    /\ UNCHANGED <<scraper, res, results, blockResults, page, blocks, bi, pi>>
    /\ UNCHANGED <<fetchVars, cmdVars, newVars, libVars>>

ScrapeNext ==
    \/ ScrapeCall
    \/ Prepare
    \/ Fetch
    \/ Parse
    \/ DividePage
    \/ Extract
    \/ NextPage

\* ------------------------------------------------------------ fetchScript
\* The most requests the browser has in flight at once.
MaxInFlight == 2

\* The stream Fetch returns with an error.
NilStream == "nil stream"
FetchNotReturned == [stream |-> NilStream, err |-> "not returned"]

ErrInvalidMethod == "invalid method"

\* The highest limit of pages, and the most NextPage calls on one Paginator.
MaxLimit == 3
MaxCalls == MaxLimit + 3

\* The methods a caller passes to Fetch.
Methods == {"GET", "POST", "get", ""}

\* A faulty variant of MethodSupported: every method is let through.
AnyMethodSupported(m) == TRUE

\* Fetch's test of the method: method != "GET" is refused
MethodSupported(m) == m = "GET"

\* No Fetch was called: no method, no subprocess.
NoCommand == method = "none" /\ launched = 0

\* The nil slice, and no Extract result.
NilSlice == [arr |-> 0, len |-> 0]
NoExtractor == [isNil |-> TRUE]

\* The empty string where a URL is expected, and no case of a test.
EmptyString == [base |-> "", query |-> <<>>]
NoCase == [isNil |-> TRUE]

\* No Paginator is limited.
LimitIdle ==
    /\ curr = NoCase
    /\ lpc = "idle"
    /\ idx = 0
    /\ lurl = EmptyString
    /\ check = <<>>
    /\ lcalls = <<>>

\* No PhantomJSFetcher of its own, no Extract call of its own and no
\* Paginator of its own.
LibIdle ==
    /\ LimitIdle
    /\ heap = <<>>
    /\ pfargs = NilSlice
    /\ calls = <<>>
    /\ xpc = "idle"
    /\ extractor = NoExtractor
    /\ selection = <<>>
    /\ xret = NoExtractor
    /\ xblock = EmptyMap

\* New was not called.
NewIdle ==
    /\ cfg = NilConfig
    /\ npc = "idle"
    /\ nconfig = NilConfig
    /\ made = <<>>
    /\ nret = [scraper |-> NilScraper, err |-> "not returned"]
    /\ aliased = FALSE

\* Nothing of a fetch exists before Fetch is called.
FetchIdle ==
    /\ fpc = "idle"
    /\ fret = FetchNotReturned
    /\ nav = "none"
    /\ count = 0
    /\ renderTimeout = 0
    /\ forcedRenderTimeout = 0
    /\ timers = {}
    /\ closed = FALSE
    /\ stdout = <<>>
    /\ exited = -1
    /\ outstanding = 0
    /\ renders = <<>>
    /\ last = "none"

\* The engine is not part of a fetch.
ScrapeIdle ==
    /\ scraper = NilScraper
    /\ spc = "idle"
    /\ url = ""
    /\ res = NilRes
    /\ results = <<>>
    /\ blockResults = EmptyMap
    /\ page = 0
    /\ blocks = <<>>
    /\ bi = 0
    /\ pi = 0
    /\ ret = NotReturned
    /\ log = <<>>

\* The script runs: the subprocess was started and has not exited.
Running == fpc = "running" /\ exited = -1

\* A pending timer: its id, the function it runs (doRender, the forced
\* render of page.open's callback, or phantom.exit) and phantom.exit's code.
Timer(id, fn, code) == [id |-> id, fn |-> fn, code |-> code]

TimerIds(ts) == { t.id : t \in ts }

\* The id setTimeout returns: one no pending timer has and no variable of
\* the script holds (a browser never hands out an id twice; an id nothing
\* refers to any more is as good as new).
FreshId(ts, held) ==
    CHOOSE i \in 1 .. (Cardinality(ts) + Cardinality(held) + 1) :
        i \notin TimerIds(ts) \cup held

\* setTimeout(fn, delay): the pending timers after it.
setTimeout(ts, id, fn, code) == ts \cup {Timer(id, fn, code)}

\* A faulty variant of clearTimeout: nothing is cleared.
clearNothing(ts, h) == ts

\* clearTimeout(h): the pending timers after it (h undefined, fired or
\* cleared: nothing happens).
clearTimeout(ts, h) == { t \in ts : t.id # h }

\* The pending timers that run doRender after resourceWait.
DebouncePending == { t \in timers : t.fn = "doRender" }

\* A faulty variant of Completed: every report of a response counts.
CompletedAlways(stage) == TRUE

\* onResourceReceived's test of the stage: the response is complete.
Completed(stage) == stage = "" \/ stage = "end"

\* A faulty variant of Quiescent: count >= 0
QuiescentOrBusy(c) == c >= 0

\* onResourceReceived's test for arming the debounce timer: count === 0
Quiescent(c) == c = 0

\* The stages the browser reports a response at ("": none given).
Stages == {"start", "end", ""}

\* What page.evaluate returns in doRender: the markup; once the page is
\* closed, the markup or null.
Evaluated == IF closed THEN {"json html", "json null"} ELSE {"json html"}

\* PhantomJSFetcher.Fetch, up to cmd.Run: a method other than GET is refused;
\* otherwise the subprocess starts and the script calls page.open.
FetchCall ==
    /\ fpc = "idle"
    /\ \E m \in Methods :
        /\ method' = m
        /\ IF ~MethodSupported(m)
           THEN /\ fret' = [stream |-> NilStream, err |-> ErrInvalidMethod]
                /\ fpc' = "returned"
                /\ UNCHANGED <<nav, launched>>
           ELSE /\ fpc' = "running"
                /\ launched' = launched + 1
                /\ nav' = "loading"
                /\ UNCHANGED fret
    /\ UNCHANGED <<count, renderTimeout, forcedRenderTimeout, timers, closed,
                   stdout, exited, outstanding, renders, last>>
    /\ UNCHANGED <<scrapeVars, newVars, libVars>>

\* page.onResourceRequested
OnResourceRequested ==
    /\ Running
    /\ ~closed
    /\ outstanding < MaxInFlight
    /\ outstanding' = outstanding + 1
    /\ count' = count + 1
    /\ timers' = clearTimeout(timers, renderTimeout)
    /\ last' = IF timers' # timers THEN "requested, timer cleared" ELSE "requested"
    /\ UNCHANGED <<fpc, fret, nav, renderTimeout, forcedRenderTimeout, closed,
                   stdout, exited, renders>>
    /\ UNCHANGED <<scrapeVars, cmdVars, newVars, libVars>>

\* page.onResourceReceived, for a response to a request in flight; the
\* browser's request is over when the response's stage is "end" or none.
OnResourceReceived ==
    /\ Running
    /\ ~closed
    /\ outstanding > 0
    /\ \E stage \in Stages :
        /\ outstanding' = IF stage \in {"end", ""} THEN outstanding - 1 ELSE outstanding
        /\ IF Completed(stage)
           THEN /\ count' = count - 1
                /\ IF Quiescent(count')
                   THEN LET id == FreshId(timers, {renderTimeout, forcedRenderTimeout})
                        IN /\ timers' = setTimeout(timers, id, "doRender", 0)
                           /\ renderTimeout' = id
                           /\ last' = "received, timer armed"
                   ELSE /\ last' = "received"
                        /\ UNCHANGED <<timers, renderTimeout>>
           ELSE /\ last' = "received, not complete"
                /\ UNCHANGED <<count, timers, renderTimeout>>
    /\ UNCHANGED <<fpc, fret, nav, forcedRenderTimeout, closed, stdout, exited, renders>>
    /\ UNCHANGED <<scrapeVars, cmdVars, newVars, libVars>>

\* phantomExit(code): page.close() and setTimeout(phantom.exit(code), 0);
\* the pending timers after it.
phantomExit(ts, held, code) == setTimeout(ts, FreshId(ts, held), "exit", code)

\* page.open's callback with a status other than "success"
OpenFailed ==
    /\ Running
    /\ ~closed
    /\ nav = "loading"
    /\ nav' = "fail"
    /\ closed' = TRUE
    /\ timers' = phantomExit(timers, {renderTimeout, forcedRenderTimeout}, 1)
    /\ last' = "open failed"
    /\ UNCHANGED <<fpc, fret, count, renderTimeout, forcedRenderTimeout, stdout,
                   exited, outstanding, renders>>
    /\ UNCHANGED <<scrapeVars, cmdVars, newVars, libVars>>

\* page.open's callback with status "success"
OpenSucceeded ==
    /\ Running
    /\ ~closed
    /\ nav = "loading"
    /\ nav' = "success"
    /\ LET id == FreshId(timers, {renderTimeout, forcedRenderTimeout})
       IN /\ timers' = setTimeout(timers, id, "forced", 0)
          /\ forcedRenderTimeout' = id
    /\ last' = "open succeeded"
    /\ UNCHANGED <<fpc, fret, count, renderTimeout, closed, stdout, exited,
                   outstanding, renders>>
    /\ UNCHANGED <<scrapeVars, cmdVars, newVars, libVars>>

\* doRender, run by timer t when out was written before it: the JSON object
\* is written and phantomExit() is called.
DoRender(t, out) ==
    /\ \E c \in Evaluated : stdout' = out \o <<c>>
    /\ renders' = Append(renders, [by |-> t.fn, count |-> count])
    /\ closed' = TRUE
    /\ timers' = phantomExit(timers \ {t}, {renderTimeout, forcedRenderTimeout}, 0)

\* The debounce timer fires: doRender
DebounceFired ==
    /\ Running
    /\ \E t \in timers :
        /\ t.fn = "doRender"
        /\ DoRender(t, stdout)
    /\ last' = "debounce fired"
    /\ UNCHANGED <<fpc, fret, nav, count, renderTimeout, forcedRenderTimeout,
                   exited, outstanding>>
    /\ UNCHANGED <<scrapeVars, cmdVars, newVars, libVars>>

\* The timer of page.open's callback fires: console.log(count); doRender()
ForcedFired ==
    /\ Running
    /\ \E t \in timers :
        /\ t.fn = "forced"
        /\ DoRender(t, Append(stdout, "count"))
    /\ last' = "forced fired"
    /\ UNCHANGED <<fpc, fret, nav, count, renderTimeout, forcedRenderTimeout,
                   exited, outstanding>>
    /\ UNCHANGED <<scrapeVars, cmdVars, newVars, libVars>>

\* The 0 ms timers of phantomExit that fire next: timers of one delay fire in
\* the order they were set, and the one of the failed navigation (code 1) is
\* set before any of doRender's, since page.open's callback no longer runs
\* once doRender has closed the page.
FirstExit(ts) ==
    LET exits == { t \in ts : t.fn = "exit" }
    IN IF \E t \in exits : t.code = 1 THEN { t \in exits : t.code = 1 } ELSE exits

\* phantomExit's timer fires: phantom.exit(code) ends the subprocess, and
\* its timers with it.  phantomExit() passes no code: the exit code is 0.
ExitFired ==
    /\ Running
    /\ \E t \in FirstExit(timers) :
        /\ exited' = t.code
    /\ timers' = {}
    /\ last' = "exited"
    /\ UNCHANGED <<fpc, fret, nav, count, renderTimeout, forcedRenderTimeout,
                   closed, stdout, outstanding, renders>>
    /\ UNCHANGED <<scrapeVars, cmdVars, newVars, libVars>>

\* A faulty variant of FetchResult: cmd.Run's error is not looked at.
FetchResultIgnoreExit(code, out) ==
    IF out = <<>> THEN [stream |-> NilStream, err |-> "EOF"]
    ELSE IF out[1] = "count"
         THEN [stream |-> NilStream, err |-> "json: cannot unmarshal number"]
    ELSE IF out[1] = "json null"
         THEN [stream |-> NilStream, err |-> "unknown type for 'contents'"]
    ELSE [stream |-> "html", err |-> NoErr]

\* What Fetch makes of the subprocess's exit code and standard output:
\* cmd.Run's error, the JSON decoder's, the type assertion's, or the stream.
FetchResult(code, out) ==
    IF code # 0 THEN [stream |-> NilStream, err |-> "exit status"]
    ELSE IF out = <<>> THEN [stream |-> NilStream, err |-> "EOF"]
    ELSE IF out[1] = "count"
         THEN [stream |-> NilStream, err |-> "json: cannot unmarshal number"]
    ELSE IF out[1] = "json null"
         THEN [stream |-> NilStream, err |-> "unknown type for 'contents'"]
    ELSE [stream |-> "html", err |-> NoErr]

\* Fetch, from cmd.Run's return on
FetchReturn ==
    /\ fpc = "running"
    /\ exited # -1
    /\ fret' = FetchResult(exited, stdout)
    /\ fpc' = "returned"
    /\ UNCHANGED <<nav, count, renderTimeout, forcedRenderTimeout, timers, closed,
                   stdout, exited, outstanding, renders, last>>
    /\ UNCHANGED <<scrapeVars, cmdVars, newVars, libVars>>

FetchNext ==
    \/ FetchCall
    \/ OnResourceRequested
    \/ OnResourceReceived
    \/ OpenFailed
    \/ OpenSucceeded
    \/ DebounceFired
    \/ ForcedFired
    \/ ExitFired
    \/ FetchReturn

\* ---------------------------------------------------------- New, by steps
\* The configs a caller hands to New, with or without a Fetcher.
NewConfigs ==
    [ Fetcher : {"nil", "fetcher"}, NextPage : {"nil", "fn"},
      DividePage : {"nil", "fn"}, Pieces : CallerPieces ]

\* What NewHttpClientFetcher may fail with (cookiejar.New's error).
NewFetcherErrs == {"cookiejar failed"}

NewNotReturned == [scraper |-> NilScraper, err |-> "not returned"]

\* New(c) is called.
NewCalled ==
    /\ cfg \in NewConfigs
    /\ npc = "validate"
    /\ nconfig = NilConfig
    /\ made = <<>>
    /\ nret = NewNotReturned
    /\ aliased = FALSE

\* New, up to the defaults of NextPage and DividePage: the validation, the
\* clone and the two funcs.  clone copies the slice c.Pieces, not its array:
\* from there on the clone's Pieces and the caller's are one array.
NewValidate ==
    /\ npc = "validate"
    /\ LET e == IF Len(cfg.Pieces) = 0 THEN ErrNoPieces
                ELSE ValidatePieces(cfg.Pieces, 1, {})
       IN IF e # NoErr
          THEN /\ nret' = [scraper |-> NilScraper, err |-> e]
               /\ npc' = "returned"
               /\ UNCHANGED <<nconfig, aliased>>
          ELSE /\ nconfig' = FillFuncs(clone(cfg))
               /\ aliased' = TRUE
               /\ npc' = "fetcher"
               /\ UNCHANGED nret
    /\ UNCHANGED <<cfg, made>>
    /\ UNCHANGED <<scrapeVars, fetchVars, cmdVars, libVars>>

\* New, from the Fetcher on: NewHttpClientFetcher() when the config has none,
\* its error returned if it fails, and the Scraper returned.
NewFetcher ==
    /\ npc = "fetcher"
    /\ IF nconfig.Fetcher = "nil"
       THEN \E e \in {NoErr} \cup NewFetcherErrs :
            /\ made' = Append(made, "HttpClientFetcher")
            /\ IF e # NoErr
               THEN /\ nret' = [scraper |-> NilScraper, err |-> e]
                    /\ UNCHANGED nconfig
               ELSE /\ nconfig' = FillFetcher(nconfig)
                    /\ nret' = [scraper |-> [config |-> nconfig'], err |-> NoErr]
       ELSE /\ nret' = [scraper |-> [config |-> nconfig], err |-> NoErr]
            /\ UNCHANGED <<made, nconfig>>
    /\ npc' = "returned"
    /\ UNCHANGED <<cfg, aliased>>
    /\ UNCHANGED <<scrapeVars, fetchVars, cmdVars, libVars>>

NewNext ==
    \/ NewValidate
    \/ NewFetcher

\* ------------------------------------------------- the caller, after New
\* New has returned a Scraper.
NewReturnedScraper == npc = "returned" /\ nret.err = NoErr

\* The caller assigns a field of its ScrapeConfig other than Pieces.
CallerAssigns ==
    /\ NewReturnedScraper
    /\ \E f \in {"Fetcher", "NextPage", "DividePage"} : \E v \in {"nil", "fn"} :
        cfg' = [cfg EXCEPT ![f] = v]
    /\ UNCHANGED <<npc, nconfig, made, nret, aliased>>
    /\ UNCHANGED <<scrapeVars, fetchVars, cmdVars, libVars>>

\* The caller assigns another slice to c.Pieces: its config no longer holds
\* the array the Scraper's config holds.
CallerReplacesPieces ==
    /\ NewReturnedScraper
    /\ \E ps \in CallerPieces :
        cfg' = [cfg EXCEPT !.Pieces = ps]
    /\ aliased' = FALSE
    /\ UNCHANGED <<npc, nconfig, made, nret>>
    /\ UNCHANGED <<scrapeVars, fetchVars, cmdVars, libVars>>

\* The caller writes an element of c.Pieces, c.Pieces[i] = p: a write to the
\* array, seen through every slice of it.
CallerWritesPiece ==
    /\ NewReturnedScraper
    /\ \E i \in 1 .. Len(cfg.Pieces) : \E p \in {PieceB, PieceNoName} :
        /\ cfg' = [cfg EXCEPT !.Pieces[i] = p]
        /\ nret' = IF aliased
                   THEN [nret EXCEPT !.scraper.config.Pieces[i] = p]
                   ELSE nret
    /\ UNCHANGED <<npc, nconfig, made, aliased>>
    /\ UNCHANGED <<scrapeVars, fetchVars, cmdVars, libVars>>

CallerNext ==
    \/ CallerAssigns
    \/ CallerReplacesPieces
    \/ CallerWritesPiece

\* New has returned a Scraper for the caller's config; nconfig keeps the
\* configuration as New validated it and filled it in.
NewReturned ==
    /\ cfg \in { c \in NewConfigs : New(c).err = NoErr }
    /\ npc = "returned"
    /\ nret = New(cfg)
    /\ nconfig = nret.scraper.config
    /\ made = IF cfg.Fetcher = "nil" THEN <<"HttpClientFetcher">> ELSE <<>>
    /\ aliased = TRUE

\* ------------------------------------- two Fetch calls on one fetcher
\* The calls made on the one PhantomJSFetcher, and the URL of each.
Callers == {1, 2}
CallURL(i) == IF i = 1 THEN "u1" ELSE "u2"

\* Prepare's args, without the temporary directory's own name.
PreparedArgs ==
    << "--ignore-ssl-errors=true", "--web-security=false",
       "--cookies-file=cookies.dat", "fetch.js" >>

\* A faulty variant of ArgsArray: the array has room for one more element.
ArgsArraySpare == PreparedArgs \o <<"">>

\* The array behind the slice literal of Prepare: as long as the literal.
ArgsArray == PreparedArgs

\* The elements of slice sl in heap h.
Contents(h, sl) == IF sl.arr = 0 THEN <<>> ELSE SubSeq(h[sl.arr], 1, sl.len)

\* Go's append(sl, x): x goes into the array of sl when it has room beyond
\* len(sl); otherwise the elements are copied into a new array.
GoAppend(h, sl, x) ==
    IF sl.arr # 0 /\ sl.len < Len(h[sl.arr])
    THEN [ heap |-> [h EXCEPT ![sl.arr][sl.len + 1] = x],
           slice |-> [arr |-> sl.arr, len |-> sl.len + 1] ]
    ELSE [ heap |-> Append(h, Contents(h, sl) \o <<x>>),
           slice |-> [arr |-> Len(h) + 1, len |-> sl.len + 1] ]

\* A Fetch call not yet made: its pc, the slice append gave it, the
\* arguments of its subprocess, and its script's count and timers.
NoCall ==
    [ pc |-> "idle", slice |-> NilSlice, argv |-> <<>>, opened |-> FALSE,
      count |-> 0, renderTimeout |-> FALSE, forcedRenderTimeout |-> FALSE ]

\* NewPhantomJSFetcher has returned the fetcher; nothing was called on it.
PFNew ==
    /\ heap = <<>>
    /\ pfargs = NilSlice
    /\ calls = [i \in Callers |-> NoCall]

\* PhantomJSFetcher.Prepare: pf.args = []string{...}
PFPrepare ==
    /\ pfargs = NilSlice
    /\ heap' = Append(heap, ArgsArray)
    /\ pfargs' = [arr |-> Len(heap) + 1, len |-> Len(PreparedArgs)]
    /\ UNCHANGED calls
    /\ UNCHANGED <<scrapeVars, fetchVars, cmdVars, newVars, exVars, lpVars>>

\* Fetch("GET", url) of call i, up to append(pf.args, url)
PFAppend(i) ==
    /\ pfargs # NilSlice
    /\ calls[i].pc = "idle"
    /\ LET a == GoAppend(heap, pfargs, CallURL(i))
       IN /\ heap' = a.heap
          /\ calls' = [calls EXCEPT ![i].pc = "appended", ![i].slice = a.slice]
    /\ UNCHANGED pfargs
    /\ UNCHANGED <<scrapeVars, fetchVars, cmdVars, newVars, exVars, lpVars>>

\* exec.Command(pf.binaryPath, args...) copies the arguments, and cmd.Run
\* starts the subprocess of call i with them.
PFRun(i) ==
    /\ calls[i].pc = "appended"
    /\ calls' = [calls EXCEPT ![i].pc = "running",
                              ![i].argv = <<"phantomjs">> \o Contents(heap, calls[i].slice)]
    /\ UNCHANGED <<heap, pfargs>>
    /\ UNCHANGED <<scrapeVars, fetchVars, cmdVars, newVars, exVars, lpVars>>

\* page.onResourceRequested in the script of call i
PFRequested(i) ==
    /\ calls[i].pc = "running"
    /\ calls[i].count < MaxInFlight
    /\ calls' = [calls EXCEPT ![i].count = @ + 1, ![i].renderTimeout = FALSE]
    /\ UNCHANGED <<heap, pfargs>>
    /\ UNCHANGED <<scrapeVars, fetchVars, cmdVars, newVars, exVars, lpVars>>

\* page.onResourceReceived in the script of call i
PFReceived(i) ==
    /\ calls[i].pc = "running"
    /\ calls[i].count > 0
    /\ \E stage \in Stages :
        /\ Completed(stage)
        /\ calls' = [calls EXCEPT ![i].count = @ - 1,
                                  ![i].renderTimeout =
                                      IF Quiescent(calls[i].count - 1) THEN TRUE ELSE @]
    /\ UNCHANGED <<heap, pfargs>>
    /\ UNCHANGED <<scrapeVars, fetchVars, cmdVars, newVars, exVars, lpVars>>

\* page.open's callback in the script of call i, with status "success"
PFOpened(i) ==
    /\ calls[i].pc = "running"
    /\ ~calls[i].opened
    /\ calls' = [calls EXCEPT ![i].opened = TRUE, ![i].forcedRenderTimeout = TRUE]
    /\ UNCHANGED <<heap, pfargs>>
    /\ UNCHANGED <<scrapeVars, fetchVars, cmdVars, newVars, exVars, lpVars>>

\* A timer of the script of call i fires: doRender, the subprocess exits and
\* Fetch returns.
PFRendered(i) ==
    /\ calls[i].pc = "running"
    /\ calls[i].renderTimeout \/ calls[i].forcedRenderTimeout
    /\ calls' = [calls EXCEPT ![i].pc = "returned"]
    /\ UNCHANGED <<heap, pfargs>>
    /\ UNCHANGED <<scrapeVars, fetchVars, cmdVars, newVars, exVars, lpVars>>

\* The steps of call i.
PFCall(i) ==
    \/ PFAppend(i)
    \/ PFRun(i)
    \/ PFRequested(i)
    \/ PFReceived(i)
    \/ PFOpened(i)
    \/ PFRendered(i)

PFNext ==
    \/ PFPrepare
    \/ \E i \in Callers : PFCall(i)

\* ------------------------------------------------------------ extractors
\* A string is the sequence of its characters.  A node of a parsed document
\* is a text node with its data, or an element with its tag, its attributes
\* in the order of the markup, and its children.
Txt(data) == [type |-> "text", data |-> data]
El(tag, attr, kids) == [type |-> "element", tag |-> tag, attr |-> attr, kids |-> kids]

\* html.Render of a node: a text node's data (the documents drawn below have
\* no character that Render escapes); an element's own tag with its
\* attributes, then its children, then its end tag.
RECURSIVE RenderAttrs(_)
RenderAttrs(attr) ==
    IF attr = <<>> THEN <<>>
    ELSE <<" ">> \o attr[1].key \o <<"=", "\"">> \o attr[1].val \o <<"\"">>
            \o RenderAttrs(Tail(attr))

RECURSIVE Render(_)
RECURSIVE RenderAll(_)
Render(n) ==
    IF n.type = "text" THEN n.data
    ELSE <<"<">> \o n.tag \o RenderAttrs(n.attr) \o <<">">>
            \o RenderAll(n.kids)
            \o <<"<", "/">> \o n.tag \o <<">">>

RenderAll(nodes) ==
    IF nodes = <<>> THEN <<>> ELSE Render(nodes[1]) \o RenderAll(Tail(nodes))

\* goquery's s.Html() on a selection of one element: the markup of what is
\* inside the element, without the element's own tag.  It writes to a buffer
\* in memory, so its error is always nil.
ElementHtml(s) == RenderAll(s.kids)

\* The text of a node: the data of the text nodes under it, in order.
RECURSIVE NodeText(_)
RECURSIVE NodesText(_)
NodeText(n) == IF n.type = "text" THEN n.data ELSE NodesText(n.kids)

NodesText(nodes) ==
    IF nodes = <<>> THEN <<>> ELSE NodeText(nodes[1]) \o NodesText(Tail(nodes))

\* goquery's sel.Text(): the combined text of the elements of the selection.
SelectionText(sel) == NodesText(sel)

\* goquery's s.Attr(name) on a selection of one element: the value of the
\* first attribute of that name, and whether there is one.
RECURSIVE ElementAttr(_, _)
ElementAttr(attr, name) ==
    IF attr = <<>> THEN [found |-> FALSE, val |-> <<>>]
    ELSE IF attr[1].key = name THEN [found |-> TRUE, val |-> attr[1].val]
    ELSE ElementAttr(Tail(attr), name)

\* The documents' elements.
BOne == El(<<"b">>, <<>>, <<Txt(<<"O", "N", "E">>)>>)
DivOne == El(<<"d", "i", "v">>, <<>>, <<BOne>>)
PTwo == El(<<"p">>, <<>>, <<El(<<"i">>, <<>>, <<Txt(<<"T", "W", "O">>)>>)>>)
Span42 == El(<<"s", "p", "a", "n">>, <<>>, <<Txt(<<"4", "2">>)>>)
Link7 ==
    El(<<"a">>, <<[key |-> <<"h", "r", "e", "f">>, val |-> <<"/", "7">>]>>,
       <<Txt(<<"1", "2", " ", "3">>)>>)
Link9 ==
    El(<<"a">>, <<[key |-> <<"h", "r", "e", "f">>, val |-> <<"/", "9">>]>>, <<>>)
Item == El(<<"l", "i">>, <<>>, <<Link7>>)
Heading == El(<<"d", "i", "v">>, <<>>, <<El(<<"h", "1">>, <<>>, <<Txt(<<"x">>)>>)>>)

\* The selections Extract is called with: none, one or several elements.
Selections ==
    { <<>>, <<DivOne, PTwo>>, <<Span42>>, <<Link7>>, <<Item, Span42>>,
      <<Heading>>, <<Link7, Span42, Link9>> }

\* A compiled regular expression, or the nil pointer.
NilRegexp == [isNil |-> TRUE]
Regexps == { [expr |-> "[0-9]+"], [expr |-> "([0-9]+)"], [expr |-> "([0-9])([0-9]*)"] }

\* Regexp.NumSubexp: the number of parenthesized subexpressions.
NumSubexp(re) ==
    CASE re.expr = "[0-9]+" -> 0
      [] re.expr = "([0-9]+)" -> 1
      [] re.expr = "([0-9])([0-9]*)" -> 2

Digits == {"0", "1", "2", "3", "4", "5", "6", "7", "8", "9"}

\* The leftmost longest runs of digits of a string, none overlapping: the
\* matches of each of the expressions above.  run is the run being read.
RECURSIVE DigitRuns(_, _)
DigitRuns(s, run) ==
    LET done == IF run = <<>> THEN <<>> ELSE <<run>>
    IN IF s = <<>> THEN done
       ELSE IF s[1] \in Digits THEN DigitRuns(Tail(s), Append(run, s[1]))
       ELSE done \o DigitRuns(Tail(s), <<>>)

\* One match with its subexpressions: the whole match, then each group.
Submatch(re, run) ==
    CASE NumSubexp(re) = 0 -> <<run>>
      [] NumSubexp(re) = 1 -> <<run, run>>
      [] NumSubexp(re) = 2 -> <<run, <<run[1]>>, Tail(run)>>

\* Regexp.FindAllStringSubmatch(contents, -1): every match, in order.
FindAllStringSubmatch(re, contents) ==
    LET runs == DigitRuns(contents, <<>>)
    IN [k \in 1 .. Len(runs) |-> Submatch(re, runs[k])]

\* What Extract returns in its interface{}: a string, a []string, an int;
\* NilValue is the nil interface.
StringValue(s) == [string |-> s]
ListValue(l) == [list |-> l]
IntValue(n) == [int |-> n]

\* Extract returned val and err, or panicked.
Returned(val, err) == [val |-> val, err |-> err]
Panicked == [panic |-> "index out of range"]

\* s[i] of a Go slice, whose first index is 0, is in range.
InRange(s, i) == 0 <= i /\ i < Len(s)

\* A faulty variant of Const.Extract: the selection's text is returned.
ConstExtractText(e, sel) == Returned(StringValue(SelectionText(sel)), NoErr)

\* extract.Const
ConstExtract(e, sel) == Returned(e.Val, NoErr)

\* extract.Text
TextExtract(e, sel) == Returned(StringValue(SelectionText(sel)), NoErr)

\* extract.MultipleText
MultipleTextExtract(e, sel) ==
    LET rs == [k \in 1 .. Len(sel) |-> NodeText(sel[k])]
    IN IF Len(rs) = 0 /\ e.OmitIfEmpty THEN Returned(NilValue, NoErr)
       ELSE Returned(ListValue(rs), NoErr)

\* extract.Html: the inner markup of each element, joined.
RECURSIVE JoinHtml(_)
JoinHtml(sel) ==
    IF sel = <<>> THEN <<>> ELSE ElementHtml(sel[1]) \o JoinHtml(Tail(sel))

HtmlExtract(e, sel) == Returned(StringValue(JoinHtml(sel)), NoErr)

\* extract.OuterHtml: html.Render of each node of the selection into one
\* buffer.
OuterHtmlExtract(e, sel) == Returned(StringValue(RenderAll(sel)), NoErr)

\* A faulty variant of RegexConfig: with Subexpression 0 the first group is
\* taken however many groups the pattern has.
RegexConfigFirstGroup(e) ==
    IF e.Regex = NilRegexp THEN [err |-> "no regex given", subexp |-> 0]
    ELSE IF NumSubexp(e.Regex) = 0
        THEN [err |-> "regex has no subexpressions", subexp |-> 0]
    ELSE IF e.Subexpression = 0 THEN [err |-> NoErr, subexp |-> 1]
    ELSE [err |-> NoErr, subexp |-> e.Subexpression]

\* extract.Regex, its checks of the configuration: the error, or the
\* subexpression to extract.
RegexConfig(e) ==
    IF e.Regex = NilRegexp THEN [err |-> "no regex given", subexp |-> 0]
    ELSE IF NumSubexp(e.Regex) = 0
        THEN [err |-> "regex has no subexpressions", subexp |-> 0]
    ELSE IF e.Subexpression = 0 THEN
        IF NumSubexp(e.Regex) # 1
        THEN [err |-> "regex has more than one subexpression", subexp |-> 0]
        ELSE [err |-> NoErr, subexp |-> 1]
    ELSE [err |-> NoErr, subexp |-> e.Subexpression]

\* The loop over the matches of one element: submatches[subexp] of each match
\* is appended, and indexing out of range panics.
RECURSIVE AppendMatches(_, _, _)
AppendMatches(acc, matches, subexp) ==
    IF matches = <<>> \/ acc.panic THEN acc
    ELSE IF Len(matches[1]) > 1 THEN
        IF InRange(matches[1], subexp)
        THEN AppendMatches([acc EXCEPT !.results = Append(@, matches[1][subexp + 1])],
                           Tail(matches), subexp)
        ELSE [acc EXCEPT !.panic = TRUE]
    ELSE AppendMatches(acc, Tail(matches), subexp)

\* The loop over the elements of the selection: the regex runs over the text
\* or over the inner markup of each.
RECURSIVE RegexEach(_, _, _, _)
RegexEach(e, subexp, sel, acc) ==
    IF sel = <<>> \/ acc.panic THEN acc
    ELSE LET contents == IF e.OnlyText THEN NodeText(sel[1]) ELSE ElementHtml(sel[1])
             matches == FindAllStringSubmatch(e.Regex, contents)
         IN RegexEach(e, subexp, Tail(sel), AppendMatches(acc, matches, subexp))

\* A faulty variant of RegexResult: a single result is returned as a list.
RegexResultList(e, rs) ==
    IF Len(rs) = 0 /\ e.OmitIfEmpty THEN Returned(NilValue, NoErr)
    ELSE Returned(ListValue(rs), NoErr)

\* What extract.Regex returns for the results rs it collected.
RegexResult(e, rs) ==
    IF Len(rs) = 0 /\ e.OmitIfEmpty THEN Returned(NilValue, NoErr)
    ELSE IF Len(rs) = 1 /\ ~e.AlwaysReturnList
        THEN Returned(StringValue(rs[1]), NoErr)
    ELSE Returned(ListValue(rs), NoErr)

RegexExtract(e, sel) ==
    LET c == RegexConfig(e)
    IN IF c.err # NoErr THEN Returned(NilValue, c.err)
       ELSE LET acc == RegexEach(e, c.subexp, sel, [panic |-> FALSE, results |-> <<>>])
            IN IF acc.panic THEN Panicked ELSE RegexResult(e, acc.results)

\* extract.Attr: the values of the attribute of the elements that have it.
RECURSIVE AttrEach(_, _)
AttrEach(e, sel) ==
    IF sel = <<>> THEN <<>>
    ELSE LET a == ElementAttr(sel[1].attr, e.Attr)
         IN (IF a.found THEN <<a.val>> ELSE <<>>) \o AttrEach(e, Tail(sel))

AttrExtract(e, sel) ==
    IF Len(e.Attr) = 0 THEN Returned(NilValue, "no attribute provided")
    ELSE LET rs == AttrEach(e, sel)
         IN IF Len(rs) = 0 /\ e.OmitIfEmpty THEN Returned(NilValue, NoErr)
            ELSE IF Len(rs) = 1 /\ ~e.AlwaysReturnList
                THEN Returned(StringValue(rs[1]), NoErr)
            ELSE Returned(ListValue(rs), NoErr)

\* A faulty variant of Count.Extract: OmitIfEmpty is ignored.
CountExtractNeverOmit(e, sel) == Returned(IntValue(Len(sel)), NoErr)

\* extract.Count
CountExtract(e, sel) ==
    LET l == Len(sel)
    IN IF l = 0 /\ e.OmitIfEmpty THEN Returned(NilValue, NoErr)
       ELSE Returned(IntValue(l), NoErr)

\* scrape.HtmlExtractor: the inner loop runs once, over the one element of s.
HtmlExtractorExtract(e, sel) == Returned(StringValue(JoinHtml(sel)), NoErr)

\* scrape.OuterHtmlExtractor: s.Html() of each element, joined.
OuterHtmlExtractorExtract(e, sel) == Returned(StringValue(JoinHtml(sel)), NoErr)

\* scrape.RegexExtractor: the first subexpression of each match; with one
\* result and AlwaysReturnList unset it returns results[1] of Go.
RegexExtractorExtract(e, sel) ==
    IF e.Regex = NilRegexp THEN Returned(NilValue, "no regex given")
    ELSE IF NumSubexp(e.Regex) # 1
        THEN Returned(NilValue, "regex has an invalid number of subexpressions")
    ELSE LET acc == RegexEach(e, 1, sel, [panic |-> FALSE, results |-> <<>>])
             rs == acc.results
         IN IF Len(rs) = 0 /\ e.OmitIfEmpty THEN Returned(NilValue, NoErr)
            ELSE IF Len(rs) = 1 /\ ~e.AlwaysReturnList THEN
                IF InRange(rs, 1)
                THEN Returned(StringValue(rs[2]), NoErr)
                ELSE Panicked
            ELSE Returned(ListValue(rs), NoErr)

\* The extractors Extract is called on.
ConstVals == { NilValue, StringValue(<<"c">>), IntValue(0), ListValue(<<>>) }
Subexpressions == {-1, 0, 1, 2, 3}
AttrNames == { <<"h", "r", "e", "f">>, <<"i", "d">>, <<>> }

Extractors ==
    { [kind |-> "extract.Const", Val |-> v] : v \in ConstVals }
    \cup { [kind |-> k] : k \in {"extract.Text", "extract.Html", "extract.OuterHtml",
                                 "scrape.HtmlExtractor", "scrape.OuterHtmlExtractor"} }
    \cup { [kind |-> k, OmitIfEmpty |-> o] :
            k \in {"extract.MultipleText", "extract.Count"}, o \in BOOLEAN }
    \cup { [kind |-> "extract.Regex", Regex |-> re, Subexpression |-> n,
            OnlyText |-> t, AlwaysReturnList |-> l, OmitIfEmpty |-> o] :
            re \in Regexps \cup {NilRegexp}, n \in Subexpressions,
            t \in BOOLEAN, l \in BOOLEAN, o \in BOOLEAN }
    \cup { [kind |-> "extract.Attr", Attr |-> a, AlwaysReturnList |-> l,
            OmitIfEmpty |-> o] :
            a \in AttrNames, l \in BOOLEAN, o \in BOOLEAN }
    \cup { [kind |-> "scrape.RegexExtractor", Regex |-> re, OnlyText |-> t,
            AlwaysReturnList |-> l, OmitIfEmpty |-> o] :
            re \in Regexps \cup {NilRegexp},
            t \in BOOLEAN, l \in BOOLEAN, o \in BOOLEAN }

\* The call through the PieceExtractor interface.
PieceExtractorExtract(e, sel) ==
    CASE e.kind = "extract.Const" -> ConstExtract(e, sel)
      [] e.kind = "extract.Text" -> TextExtract(e, sel)
      [] e.kind = "extract.MultipleText" -> MultipleTextExtract(e, sel)
      [] e.kind = "extract.Html" -> HtmlExtract(e, sel)
      [] e.kind = "extract.OuterHtml" -> OuterHtmlExtract(e, sel)
      [] e.kind = "extract.Regex" -> RegexExtract(e, sel)
      [] e.kind = "extract.Attr" -> AttrExtract(e, sel)
      [] e.kind = "extract.Count" -> CountExtract(e, sel)
      [] e.kind = "scrape.HtmlExtractor" -> HtmlExtractorExtract(e, sel)
      [] e.kind = "scrape.OuterHtmlExtractor" -> OuterHtmlExtractorExtract(e, sel)
      [] e.kind = "scrape.RegexExtractor" -> RegexExtractorExtract(e, sel)

\* The name of the Piece whose Extractor is called.
XPieceName == "piece"

\* Scrape calls the Piece's Extractor on the Piece's selection of a block.
ExtractCalled ==
    /\ xpc = "called"
    /\ extractor \in Extractors
    /\ selection \in Selections
    /\ xret = NoExtractor
    /\ xblock = EmptyMap

\* Extract runs: it returns, or it panics.
ExtractRun ==
    /\ xpc = "called"
    /\ xret' = PieceExtractorExtract(extractor, selection)
    /\ xpc' = IF xret' = Panicked THEN "panicked" ELSE "returned"
    /\ UNCHANGED <<extractor, selection, xblock>>
    /\ UNCHANGED <<scrapeVars, fetchVars, cmdVars, newVars, pfVars, lpVars>>

\* Scrape with an error from Extract: it returns the error.
ExtractError ==
    /\ xpc = "returned"
    /\ xret.err # NoErr
    /\ xpc' = "failed"
    /\ UNCHANGED <<extractor, selection, xret, xblock>>
    /\ UNCHANGED <<scrapeVars, fetchVars, cmdVars, newVars, pfVars, lpVars>>

\* Scrape with what Extract returned: nil is left out of blockResults,
\* anything else is stored under the Piece's name.
ExtractStore ==
    /\ xpc = "returned"
    /\ xret.err = NoErr
    /\ xblock' = StoreResult(xblock, XPieceName, xret.val)
    /\ xpc' = "stored"
    /\ UNCHANGED <<extractor, selection, xret>>
    /\ UNCHANGED <<scrapeVars, fetchVars, cmdVars, newVars, pfVars, lpVars>>

ExtractNext == ExtractRun \/ ExtractError \/ ExtractStore

\* ----------------------------------------------------------- ScrapeResults
\* The nil map[string]interface{}.
NilMap == [isNil |-> TRUE]

\* A variant of First without the check of the first page's length.
FirstUnguarded(r) ==
    IF ~InRange(r.Results, 0) THEN Panicked
    ELSE IF ~InRange(r.Results[1], 0) THEN Panicked
    ELSE r.Results[1][1]

\* ScrapeResults.First: nil if the first page has no block, else the first
\* block's mapping; r.Results[0] is indexed unchecked.
First(r) ==
    IF ~InRange(r.Results, 0) THEN Panicked
    ELSE IF Len(r.Results[1]) = 0 THEN NilMap
    ELSE r.Results[1][1]

\* -------------------------------------------------------------- paginate
\* A URL is what stands before its query, and its query: the parameters in
\* order, each a key and a value, a string of characters.
URL(base, query) == [base |-> base, query |-> query]
Param(key, val) == [key |-> key, val |-> val]

\* The characters of the decimal digits, by value.
DigitChars == <<"0", "1", "2", "3", "4", "5", "6", "7", "8", "9">>
DigitValue(c) == CHOOSE d \in 0 .. 9 : DigitChars[d + 1] = c

\* strconv.Atoi of a string without a sign: its value, or an error when it
\* is empty or has a character that is no digit.
RECURSIVE AtoiDigits(_, _)
AtoiDigits(s, acc) ==
    IF s = <<>> THEN acc ELSE AtoiDigits(Tail(s), 10 * acc + DigitValue(s[1]))

Atoi(s) ==
    IF s = <<>> \/ \E k \in 1 .. Len(s) : s[k] \notin Digits
    THEN [n |-> 0, err |-> "invalid syntax"]
    ELSE [n |-> AtoiDigits(s, 0), err |-> NoErr]

\* strconv.Itoa of a number that is not negative.
RECURSIVE Itoa(_)
Itoa(n) ==
    IF n < 10 THEN <<DigitChars[n + 1]>>
    ELSE Itoa(n \div 10) \o <<DigitChars[(n % 10) + 1]>>

\* The value of the first parameter of that key, and whether there is one.
RECURSIVE QueryGet(_, _)
QueryGet(query, key) ==
    IF query = <<>> THEN [found |-> FALSE, val |-> <<>>]
    ELSE IF query[1].key = key THEN [found |-> TRUE, val |-> query[1].val]
    ELSE QueryGet(Tail(query), key)

\* The query with the value of that key set.
QuerySet(query, key, val) ==
    [k \in 1 .. Len(query) |->
        IF query[k].key = key THEN Param(key, val) ELSE query[k]]

\* ByQueryParam(name).NextPage(u, nil): the URL with the number in the
\* parameter one higher; the empty string when the parameter is missing or
\* is no number.
ByQueryParam(name, u) ==
    LET v == QueryGet(u.query, name)
    IN IF ~v.found THEN EmptyString
       ELSE IF Atoi(v.val).err # NoErr THEN EmptyString
       ELSE URL(u.base, QuerySet(u.query, name, Itoa(Atoi(v.val).n + 1)))

\* The Paginators that are limited: ByQueryParam of a name, and a Paginator
\* of the caller's that ends, which follows the parameter up to a number.
Paginators ==
    { [kind |-> "ByQueryParam", name |-> <<"f", "o", "o">>],
      [kind |-> "ByQueryParam", name |-> <<"b", "a", "d">>] }
    \cup { [kind |-> "Ending", name |-> <<"f", "o", "o">>, end |-> m] : m \in {2, 3} }

\* p.NextPage(u, nil) of one of them.
SubNextPage(p, u) ==
    IF p.kind = "ByQueryParam" THEN ByQueryParam(p.name, u)
    ELSE LET n == ByQueryParam(p.name, u)
             v == QueryGet(n.query, p.name)
         IN IF n = EmptyString THEN EmptyString
            ELSE IF Atoi(v.val).n > p.end THEN EmptyString
            ELSE n

\* LimitPages(limit, sub).NextPage(u, nil) with i calls passed on so far:
\* the page it returns and its count afterwards.
LimitNextPage(limit, sub, i, u) ==
    IF i >= limit THEN [next |-> EmptyString, idx |-> i]
    ELSE [next |-> SubNextPage(sub, u), idx |-> i + 1]

\* The start URLs: those of the tests, one without a query, and one whose
\* number has a leading zero and a carry.
Google == "http://www.google.com"
Starts ==
    { URL(Google, <<Param(<<"f", "o", "o">>, <<"1">>)>>),
      URL(Google, <<>>),
      URL(Google, <<Param(<<"b", "a", "d">>, <<"a", "s", "d", "f">>)>>),
      URL(Google, <<Param(<<"f", "o", "o">>, <<"0", "9">>)>>) }

\* The cases of TestLimitPages with what the test expects of each.
Foo(v) == URL(Google, <<Param(<<"f", "o", "o">>, v)>>)
Tests ==
    << [Start |-> Foo(<<"1">>), Limit |-> 0, Results |-> <<>>],
       [Start |-> Foo(<<"1">>), Limit |-> 1, Results |-> <<Foo(<<"2">>)>>],
       [Start |-> Foo(<<"1">>), Limit |-> 2,
        Results |-> <<Foo(<<"2">>), Foo(<<"3">>)>>] >>

\* collect is called with a start URL and LimitPages(Limit, Sub).
CollectCalled ==
    /\ curr \in [Start : Starts, Limit : 0 .. MaxLimit, Sub : Paginators]
    /\ lpc = "loop"
    /\ idx = 0
    /\ lurl = curr.Start
    /\ check = <<>>
    /\ lcalls = <<>>

\* A variant of CollectStep that appends the page and keeps the URL.
CollectStepSameURL(c, n) == [url |-> c.url, results |-> Append(c.results, n)]

\* collect with a page n that is not empty: results = append(results, n)
\* and url = n.
CollectStep(c, n) == [url |-> n, results |-> Append(c.results, n)]

\* One turn of collect's loop: NextPage is called; on the empty string
\* collect returns its results.
Collect ==
    /\ lpc = "loop"
    /\ LET r == LimitNextPage(curr.Limit, curr.Sub, idx, lurl)
           c == CollectStep([url |-> lurl, results |-> check], r.next)
       IN /\ idx' = r.idx
          /\ lcalls' = Append(lcalls, [url |-> lurl, next |-> r.next])
          /\ IF r.next = EmptyString
             THEN /\ lpc' = "returned"
                  /\ UNCHANGED <<lurl, check>>
             ELSE /\ lurl' = c.url
                  /\ check' = c.results
                  /\ UNCHANGED lpc
    /\ UNCHANGED curr
    /\ UNCHANGED <<scrapeVars, fetchVars, cmdVars, newVars, pfVars, exVars>>

\* After collect has returned, NextPage of the same Paginator is called
\* again, with the start URL or with the last page.
CalledAgain ==
    /\ lpc = "returned"
    /\ Len(lcalls) < MaxCalls
    /\ \E u \in {curr.Start, lurl} :
        LET r == LimitNextPage(curr.Limit, curr.Sub, idx, u)
        IN /\ idx' = r.idx
           /\ lcalls' = Append(lcalls, [url |-> u, next |-> r.next])
    /\ UNCHANGED <<curr, lpc, lurl, check>>
    /\ UNCHANGED <<scrapeVars, fetchVars, cmdVars, newVars, pfVars, exVars>>

LimitNext == Collect \/ CalledAgain

\* ------------------------------------------------------- specifications
\* One Scrape of a Scraper that New returned.
Init == ScrapeInit /\ FetchIdle /\ NoCommand /\ NewIdle /\ LibIdle
Next == ScrapeNext
Spec == Init /\ [][Next]_vars

\* One Fetch of a PhantomJSFetcher.
FetchInit == ScrapeIdle /\ FetchIdle /\ NoCommand /\ NewIdle /\ LibIdle
FetchSpec == FetchInit /\ [][FetchNext]_vars

\* One call of New.
NewInit == ScrapeIdle /\ FetchIdle /\ NoCommand /\ NewCalled /\ LibIdle
NewSpec == NewInit /\ [][NewNext]_vars

\* The caller's changes to its config after New has returned a Scraper.
CallerInit == ScrapeIdle /\ FetchIdle /\ NoCommand /\ NewReturned /\ LibIdle
CallerSpec == CallerInit /\ [][CallerNext]_vars

\* collect on a limited Paginator, and later calls of its NextPage.
LimitInit ==
    /\ ScrapeIdle /\ FetchIdle /\ NoCommand /\ NewIdle
    /\ heap = <<>> /\ pfargs = NilSlice /\ calls = <<>>
    /\ xpc = "idle" /\ extractor = NoExtractor /\ selection = <<>> /\ xret = NoExtractor
    /\ xblock = EmptyMap
    /\ CollectCalled
LimitSpec == LimitInit /\ [][LimitNext]_vars

\* Two Fetch calls on one PhantomJSFetcher, one after the other or at once.
PFInit ==
    /\ ScrapeIdle /\ FetchIdle /\ NoCommand /\ NewIdle
    /\ PFNew
    /\ xpc = "idle" /\ extractor = NoExtractor /\ selection = <<>> /\ xret = NoExtractor
    /\ xblock = EmptyMap
    /\ LimitIdle
PFSpec == PFInit /\ [][PFNext]_vars

\* One Extract call of a Scrape, and what Scrape does with its answer.
ExtractInit ==
    /\ ScrapeIdle /\ FetchIdle /\ NoCommand /\ NewIdle
    /\ heap = <<>> /\ pfargs = NilSlice /\ calls = <<>>
    /\ ExtractCalled
    /\ LimitIdle
ExtractSpec == ExtractInit /\ [][ExtractNext]_vars

\* One Fetch, with what the runtimes guarantee: a pending timer fires unless
\* it is cleared or the subprocess ends, and cmd.Run returns once the
\* subprocess has ended.  When the browser reports a request, a response or
\* the end of the navigation is the network's business: nothing is assumed.
FairFetchSpec ==
    /\ FetchSpec
    /\ WF_vars(DebounceFired)
    /\ WF_vars(ForcedFired)
    /\ WF_vars(ExitFired)
    /\ WF_vars(FetchReturn)

\* ------------------------------------------------ what the log tells
Pieces == scraper.config.Pieces

\* The indices of the log's entries for calls of op.
Calls(op) == { i \in 1 .. Len(log) : log[i].op = op }

\* The calls that can fail a scrape under way.
IsStep(i) == log[i].op \in {"Fetch", "Parse", "Extract"}
SomeStepFailed == \E i \in 1 .. Len(log) : IsStep(i) /\ log[i].err # NoErr

\* The URL Scrape was called with.
StartURL == log[1].url

\* The chain of pages the answers of NextPage lay out from the start URL.
Chain ==
    LET Follow[i \in 0 .. Len(log)] ==
            IF i = 0 THEN <<>>
            ELSE IF log[i].op = "Scrape" /\ log[i].url # ""
                 THEN Append(Follow[i - 1], log[i].url)
            ELSE IF log[i].op = "NextPage" /\ log[i].url # ""
                 THEN Append(Follow[i - 1], log[i].url)
            ELSE Follow[i - 1]
    IN Follow[Len(log)]

\* The Extract calls made for block j of page p.
ExtractsOf(p, j) ==
    { i \in Calls("Extract") : log[i].page = p /\ log[i].sel.block = j }

\* The number of blocks DividePage returned for page p.
BlockCount(p) ==
    LET d == { i \in Calls("DividePage") : log[i].page = p }
    IN IF d = {} THEN 0 ELSE log[CHOOSE i \in d : TRUE].n

\* The Extract calls for block j of page p that returned a value and no error.
Valued(p, j) ==
    { i \in ExtractsOf(p, j) : log[i].val # NilValue /\ log[i].err = NoErr }

\* m is the mapping the Extract calls for block j of page p account for: a
\* key for each Piece whose Extractor returned a value, holding that value.
Accounts(m, p, j) ==
    /\ DOMAIN m = { log[i].piece : i \in Valued(p, j) }
    /\ \A i \in Valued(p, j) : m[log[i].piece] = log[i].val

\* ----------------------------------------------------------------- claims

\* C1: when Scrape has returned after a chain of N >= 1 pages on which every
\* Fetch, parse and Extract succeeded, it returned a nil error and results
\* whose URLs are the chain's N URLs in order and whose Results hold, for
\* each of them in turn, the block list extracted from that page.
C1_ChainReturned ==
    (spc = "done" /\ Calls("Fetch") # {} /\ ~SomeStepFailed) =>
        /\ ret.err = NoErr
        /\ ret.res # NilRes
        /\ ret.res.URLs = Chain
        /\ Len(ret.res.Results) = Len(Chain)
        /\ \A p \in 1 .. Len(ret.res.Results) :
            /\ Len(ret.res.Results[p]) = BlockCount(p)
            /\ \A j \in 1 .. BlockCount(p) : Accounts(ret.res.Results[p][j], p, j)

\* A scrape of two pages with different URLs, the first of two blocks, has
\* returned its results.
C1_Witness ==
    /\ spc = "done"
    /\ ~SomeStepFailed
    /\ ret.res # NilRes
    /\ Len(ret.res.URLs) = 2
    /\ ret.res.URLs[1] # ret.res.URLs[2]
    /\ Len(ret.res.Results[1]) = 2
    /\ Len(ret.res.Results[2]) = 1

\* C2: once a Fetch, a parse or an Extract has returned an error, Scrape has
\* returned nil results and an error, whatever was built before.
C2_NoPartialResults ==
    SomeStepFailed => (spc = "done" /\ ret.res = NilRes /\ ret.err # NoErr)

\* An Extract failed on the second block of the second page, after the first
\* page was appended and the first block extracted.
C2_Witness ==
    /\ spc = "done"
    /\ log[Len(log)].op = "Extract"
    /\ log[Len(log)].err # NoErr
    /\ log[Len(log)].page = 2
    /\ log[Len(log)].sel.block = 2
    /\ Len(res.Results) = 1
    /\ Len(res.Results[1]) = 1
    /\ Len(results) = 1

\* C3: an Extract call that returned an error is the last call Scrape made,
\* and Scrape has returned that very error.
C3_ExtractErrorAborts ==
    \A i \in Calls("Extract") :
        log[i].err # NoErr =>
            (i = Len(log) /\ spc = "done" /\ ret.err = log[i].err)

\* The first of two Pieces failed, with a value, on the first of two blocks.
C3_Witness ==
    /\ spc = "done"
    /\ log[Len(log)].op = "Extract"
    /\ log[Len(log)].err = "extract failed B"
    /\ log[Len(log)].val # NilValue
    /\ Len(Pieces) = 2
    /\ pi = 1
    /\ bi = 1
    /\ Len(blocks) = 2

\* The URL at hand when call i was made: what the latest NextPage returned,
\* or the start URL before the first.
URLAt(i) ==
    LET before == { k \in Calls("NextPage") : k < i }
    IN IF before = {} THEN StartURL
       ELSE log[CHOOSE k \in before : \A m \in before : m <= k].url

\* C4: every Fetch is made with "GET" and the URL at hand, as the first call
\* of its iteration (right after Prepare or the last NextPage), each NextPage
\* that returned a URL is followed by one Fetch, and a Fetch that returned an
\* error is the last call made: Scrape has returned nil results and that error.
C4_OneFetchNoRetry ==
    /\ \A i \in Calls("Fetch") :
        /\ log[i].method = "GET"
        /\ log[i].url = URLAt(i)
        /\ i > 1 /\ log[i - 1].op \in {"Prepare", "NextPage"}
        /\ log[i].err # NoErr =>
            (i = Len(log) /\ spc = "done" /\ ret = [res |-> NilRes, err |-> log[i].err])
    /\ \A i \in Calls("NextPage") :
        (log[i].url # "" /\ i < Len(log)) => log[i + 1].op = "Fetch"

\* The Fetch of the second page failed.
C4_Witness ==
    /\ spc = "done"
    /\ log[Len(log)].op = "Fetch"
    /\ log[Len(log)].err = "fetch failed B"
    /\ log[Len(log)].page = 2
    /\ Len(res.Results) = 1

\* C5: every block's mapping, finished or under way, has a key for exactly
\* the Pieces whose Extractor returned a non-nil value and a nil error for
\* that block, each holding the value returned.
C5_KeyIffValue ==
    /\ res # NilRes =>
        \A p \in 1 .. Len(res.Results) : \A j \in 1 .. Len(res.Results[p]) :
            Accounts(res.Results[p][j], p, j)
    /\ spc = "extract" =>
        /\ \A j \in 1 .. Len(results) : Accounts(results[j], page, j)
        /\ Accounts(blockResults, page, bi)

\* A finished block for which Piece a was omitted and Piece b returned a value.
C5_Witness ==
    /\ res # NilRes
    /\ \E p \in 1 .. Len(res.Results) : \E j \in 1 .. Len(res.Results[p]) :
        /\ DOMAIN res.Results[p][j] = {"b"}
        /\ \E i \in ExtractsOf(p, j) : log[i].piece = "a" /\ log[i].val = NilValue

\* The place of Extract call i among the calls for its block.
PlaceInBlock(i) ==
    Cardinality({ k \in ExtractsOf(log[i].page, log[i].sel.block) : k <= i })

\* C6: the k-th Extract call for a block is for the k-th configured Piece, on
\* the block narrowed by that Piece's Selector; and unless it returned an
\* error, the call for the next Piece of the block comes right after it,
\* whether it returned a value or nil.
C6_PiecesInOrder ==
    \A i \in Calls("Extract") :
        LET k == PlaceInBlock(i)
            b == BlockSelection(log[i].page, log[i].sel.block)
        IN /\ k <= Len(Pieces)
           /\ log[i].piece = Pieces[k].Name
           /\ log[i].sel = PieceSel(b, Pieces[k])
           /\ (log[i].err = NoErr /\ k < Len(Pieces)) =>
                IF i = Len(log)
                THEN spc = "extract" /\ pi = k + 1 /\ blocks[bi] = b
                ELSE /\ log[i + 1].op = "Extract"
                     /\ log[i + 1].page = log[i].page
                     /\ log[i + 1].sel.block = log[i].sel.block
                     /\ log[i + 1].piece = Pieces[k + 1].Name

\* Piece a was omitted for a block and Piece b was extracted from it next.
C6_Witness ==
    \E i \in Calls("Extract") :
        /\ i < Len(log)
        /\ log[i].piece = "a"
        /\ log[i].val = NilValue
        /\ log[i].err = NoErr
        /\ log[i + 1].op = "Extract"
        /\ log[i + 1].piece = "b"
        /\ log[i + 1].sel = Find(BlockSelection(log[i].page, log[i].sel.block), "s")

\* The place of a call in the handling of one page.
Rank(op) ==
    CASE op = "Fetch" -> 1
      [] op = "Parse" -> 2
      [] op = "Close" -> 3
      [] op = "DividePage" -> 4
      [] op = "Extract" -> 5
      [] op = "NextPage" -> 6
      [] OTHER -> 0

\* C7: the calls for one page come together and in order (Fetch, parse,
\* DividePage, the Extracts, NextPage), and before any call for the next
\* page (each call is for the page of the call before it, at the same place
\* or a later one, or for a later page); when NextPage is called on a page,
\* every Piece was extracted from every block of the page and the page's
\* block list is in Results; and the Fetch of a page comes after the
\* NextPage call on the page before it.
C7_PagesDoNotOverlap ==
    /\ \A i \in 1 .. Len(log) - 1 :
        log[i].page >= 1 =>
            \/ log[i].page < log[i + 1].page
            \/ /\ log[i].page = log[i + 1].page
               /\ Rank(log[i].op) <= Rank(log[i + 1].op)
               /\ Rank(log[i].op) = Rank(log[i + 1].op) => log[i].op = "Extract"
    /\ \A i \in Calls("NextPage") :
        LET p == log[i].page
        IN /\ Cardinality({ k \in Calls("Extract") : log[k].page = p /\ k < i })
                = BlockCount(p) * Len(Pieces)
           /\ Len(res.Results) >= p
           /\ Len(res.Results[p]) = BlockCount(p)
    /\ spc = "nextpage" => (Len(res.Results) = page /\ Len(res.URLs) = page)
    /\ \A i \in Calls("Fetch") :
        log[i].page > 1 =>
            \E k \in Calls("NextPage") : k < i /\ log[k].page = log[i].page - 1

\* The second page is being fetched after the first, of two blocks, was
\* extracted, appended and asked for the next page.
C7_Witness ==
    /\ log # <<>>
    /\ log[Len(log)].op = "Fetch"
    /\ log[Len(log)].page = 2
    /\ log[Len(log)].err = NoErr
    /\ BlockCount(1) = 2
    /\ Len(res.Results) = 1

\* C8: a resource request leaves no debounce timer pending, so the timer that
\* was pending runs no render; a debounce timer is armed only by a completed
\* response that brings count (back) to zero; and a debounce render is run
\* only by a timer that was pending.
C8_RequestCancelsDebounce ==
    [][ /\ outstanding' = outstanding + 1 => DebouncePending' = {}
        /\ DebouncePending' \ DebouncePending # {} =>
            (outstanding' = outstanding - 1 /\ count' = count - 1 /\ count' = 0)
        /\ last' = "debounce fired" => DebouncePending # {} ]_vars

\* A request has just cleared the pending debounce timer.
C8_Witness ==
    /\ last = "requested, timer cleared"
    /\ count = 1
    /\ DebouncePending = {}

\* C9: doRender is run for the debounce only by the expiry of a pending
\* debounce timer, in a step that is no request and no response, and count
\* is zero then.
C9_DebounceRenderOnExpiry ==
    [][ (Len(renders') > Len(renders) /\ renders'[Len(renders')].by = "doRender") =>
            /\ \E t \in DebouncePending : t \notin timers'
            /\ count' = count
            /\ outstanding' = outstanding
            /\ count = 0
            /\ renders'[Len(renders')].count = 0 ]_vars

\* The debounce timer has fired, after a request and its response, and run
\* doRender.
C9_Witness ==
    /\ last = "debounce fired"
    /\ renders = << [by |-> "doRender", count |-> 0] >>
    /\ stdout = << "json html" >>

\* C10: every fetch whose subprocess was started returns.
C10_FetchTerminates == (fpc = "running") ~> (fpc = "returned")

\* The JSON objects the script wrote to its standard output.
JSONWritten == { i \in 1 .. Len(stdout) : stdout[i] \in {"json html", "json null"} }

\* The outcomes of the fetch so far: the runs of doRender, and the failure of
\* the navigation.
Outcomes == Len(renders) + (IF nav = "fail" THEN 1 ELSE 0)

\* C11: a fetch has at most one outcome (a debounce render, a hard-deadline
\* render or a navigation failure) and exactly one once the script has
\* exited; doRender runs at most once, and at most one JSON object is written
\* to the standard output.
C11_ExactlyOneOutcome ==
    /\ Outcomes <= 1
    /\ Len(renders) <= 1
    /\ Cardinality(JSONWritten) <= 1
    /\ exited # -1 => Outcomes = 1

\* C12: while a requested resource has not completed, no debounce timer is
\* pending; a render that happened with a resource still in flight is the
\* one render of the hard-deadline timer, it wrote the markup of the open
\* page, and Fetch, once it has returned, has returned that markup.
C12_StalledResourceForcedRender ==
    /\ outstanding > 0 => DebouncePending = {}
    /\ (outstanding > 0 /\ renders # <<>>) =>
        /\ renders = << [by |-> "forced", count |-> count] >>
        /\ \E i \in 1 .. Len(stdout) : stdout[i] = "json html"
    /\ (outstanding > 0 /\ renders # <<>> /\ fpc = "returned") =>
        fret = [stream |-> "html", err |-> NoErr]

\* The Pieces New accepts: at least one, each with a Name, a Name no earlier
\* Piece has, and a Selector.
WellFormed(pieces) ==
    /\ Len(pieces) >= 1
    /\ \A i \in 1 .. Len(pieces) :
        /\ pieces[i].Name # ""
        /\ pieces[i].Selector # ""
        /\ \A j \in 1 .. i - 1 : pieces[j].Name # pieces[i].Name

\* C13: New returns a Scraper only for well-formed Pieces, and then with a
\* nil error; for any other config it returns a nil Scraper and an error
\* (ErrNoPieces for no Pieces) without having created a Fetcher.
C13_NewValidates ==
    npc = "returned" =>
        /\ nret.scraper # NilScraper => (WellFormed(cfg.Pieces) /\ nret.err = NoErr)
        /\ nret.scraper = NilScraper => nret.err # NoErr
        /\ ~WellFormed(cfg.Pieces) =>
            /\ nret.scraper = NilScraper
            /\ nret.err # NoErr
            /\ made = <<>>
            /\ Len(cfg.Pieces) = 0 => nret.err = ErrNoPieces

\* New has refused a config with no Fetcher whose second Piece has no Selector.
C13_Witness ==
    /\ npc = "returned"
    /\ cfg.Fetcher = "nil"
    /\ cfg.Pieces = <<PieceA, PieceNoSel>>
    /\ nret.scraper = NilScraper
    /\ made = <<>>

\* Two of the pieces share a Name.
SharesName(pieces) ==
    \E i, j \in 1 .. Len(pieces) : i # j /\ pieces[i].Name = pieces[j].Name

\* C14: New refuses every config in which two Pieces share a Name, with a nil
\* Scraper and an error; so the Pieces of the Scraper at work have different
\* Names, and no two Extract calls for one block store under the same key.
C14_NoDuplicateNames ==
    /\ \A c \in CallerConfigs :
        SharesName(c.Pieces) => (New(c).scraper = NilScraper /\ New(c).err # NoErr)
    /\ ~SharesName(Pieces)
    /\ \A p \in 1 .. page : \A j \in 1 .. BlockCount(p) :
        \A i1, i2 \in Valued(p, j) : log[i1].piece = log[i2].piece => i1 = i2

\* A returned block holds the values of two Pieces, under their two Names.
C14_Witness ==
    /\ res # NilRes
    /\ \E c \in CallerConfigs : SharesName(c.Pieces)
    /\ \E p \in 1 .. Len(res.Results) : \E j \in 1 .. Len(res.Results[p]) :
        /\ DOMAIN res.Results[p][j] = {"a", "b"}
        /\ Cardinality(Valued(p, j)) = 2

\* C15: a Scrape with a non-empty URL calls Prepare once, right after the
\* check of the URL and before any Fetch; a Prepare that returned an error is
\* the last call made: Scrape has returned nil results and that error, and
\* no Fetch was called.
C15_PrepareOnceFirst ==
    /\ Cardinality(Calls("Prepare")) <= 1
    /\ \A k \in Calls("Prepare") :
        /\ k = 2 /\ log[1].op = "Scrape" /\ log[1].url # ""
        /\ log[k].err # NoErr =>
            /\ k = Len(log)
            /\ spc = "done"
            /\ ret = [res |-> NilRes, err |-> log[k].err]
    /\ \A i \in Calls("Fetch") :
        \E k \in Calls("Prepare") : k < i /\ log[k].err = NoErr
    /\ (log # <<>> /\ StartURL # "" /\ spc # "prepare") =>
        Cardinality(Calls("Prepare")) = 1

\* Prepare failed and Scrape returned its error.
C15_Witness ==
    /\ spc = "done"
    /\ Len(log) = 2
    /\ log[2].op = "Prepare"
    /\ log[2].err = "prepare failed"
    /\ ret.err = "prepare failed"

\* C16: when a Scrape that called Prepare has returned, with results or with
\* an error, it has called the Fetcher's Close after Prepare.
C16_FetcherClosed ==
    (spc = "done" /\ Calls("Prepare") # {}) =>
        \E i \in Calls("Fetcher.Close") : \A k \in Calls("Prepare") : k < i

\* C17: a Scrape that succeeded with the NextPage New fills in for nil has
\* fetched one page: URLs is the start URL alone and Results has one entry.
C17_NilNextPageOnePage ==
    (spc = "done" /\ ret.err = NoErr /\ scraper.config.NextPage = "default") =>
        /\ ret.res.URLs = <<StartURL>>
        /\ Len(ret.res.Results) = 1
        /\ Cardinality(Calls("Fetch")) = 1
        /\ \A i \in Calls("NextPage") : log[i].url = ""

\* A Scrape with the default NextPage has returned its one page, of two blocks.
C17_Witness ==
    /\ spc = "done"
    /\ ret.err = NoErr
    /\ scraper.config.NextPage = "default"
    /\ ret.res.URLs = <<"u1">>
    /\ Len(ret.res.Results[1]) = 2

\* C18: with the DividePage New fills in for nil, every page
\* divided yields exactly one block, and every entry of Results has length 1.
C18_NilDividePageOneBlock ==
    scraper.config.DividePage = "body" =>
        /\ \A i \in Calls("DividePage") : log[i].n = 1
        /\ res # NilRes => \A p \in 1 .. Len(res.Results) : Len(res.Results[p]) = 1

\* The configured Piece of that Name (New lets no two share one).
PieceNamed(name) == CHOOSE pc \in { Pieces[k] : k \in 1 .. Len(Pieces) } : pc.Name = name

\* C19: the Extractor of a Piece whose Selector is "." is handed the block's
\* own selection, and the Extractor of any other Piece the block narrowed by
\* the Piece's Selector.
C19_DotSelectorUnmodified ==
    \A i \in Calls("Extract") :
        LET pc == PieceNamed(log[i].piece)
            b == BlockSelection(log[i].page, log[i].sel.block)
        IN IF pc.Selector = "."
           THEN log[i].sel = b
           ELSE /\ log[i].sel.find = pc.Selector
                /\ [log[i].sel EXCEPT !.find = ""] = b
                /\ log[i].sel # b

\* In one block, Piece a (Selector ".") was handed the block itself and
\* Piece b (Selector "s") the block narrowed by "s".
C19_Witness ==
    \E i, k \in Calls("Extract") :
        /\ log[i].page = log[k].page
        /\ log[i].sel.block = log[k].sel.block
        /\ log[i].piece = "a"
        /\ log[i].sel.find = ""
        /\ log[k].piece = "b"
        /\ log[k].sel.find = "s"

\* C20: a Fetch called with a method other than "GET" has returned
\* ErrInvalidMethod and a nil stream, and has started no subprocess: no
\* page was opened and nothing of the script ran.
C20_NonGetRefused ==
    (fpc # "idle" /\ method # "GET") =>
        /\ fpc = "returned"
        /\ fret = [stream |-> NilStream, err |-> ErrInvalidMethod]
        /\ launched = 0
        /\ nav = "none"
        /\ exited = -1
        /\ stdout = <<>>

\* Fetch("POST", url) has returned ErrInvalidMethod.
C20_Witness ==
    /\ fpc = "returned"
    /\ method = "POST"
    /\ fret.err = ErrInvalidMethod
    /\ launched = 0

\* C21: a Fetch with "GET" has started one subprocess; once it has returned,
\* it has returned a stream, the contents string, exactly when the
\* subprocess exited with status 0 and the first JSON value of its standard
\* output is an object whose contents is a string, and an error and a nil
\* stream otherwise; after a failed navigation it has returned an error.
C21_FetchErrors ==
    /\ launched = (IF fpc # "idle" /\ method = "GET" THEN 1 ELSE 0)
    /\ (fpc = "returned" /\ method = "GET") =>
        LET clean == exited = 0
            string == stdout # <<>> /\ stdout[1] = "json html"
        IN /\ (clean /\ string) <=> fret.err = NoErr
           /\ fret.err = NoErr => fret.stream = "html"
           /\ fret.err # NoErr => fret.stream = NilStream
           /\ nav = "fail" => fret.err # NoErr

\* A Fetch has returned an error after a failed navigation, although a
\* render wrote a JSON object before the subprocess exited.
C21_Witness ==
    /\ fpc = "returned"
    /\ nav = "fail"
    /\ exited = 1
    /\ stdout = <<"json html">>
    /\ fret.err = "exit status"
    /\ fret.stream = NilStream

\* C22: each of two Fetch calls on one PhantomJSFetcher starts its
\* subprocess with the fetcher's arguments followed by its own URL, whatever
\* the other call does meanwhile; and a step of one call changes nothing of
\* the other: not its arguments, not its count, not its timers.
C22_FetchesIndependent ==
    [][ /\ \A i \in Callers :
            calls'[i].pc \in {"running", "returned"} =>
                calls'[i].argv = <<"phantomjs">> \o PreparedArgs \o <<CallURL(i)>>
        /\ \A i, j \in Callers :
            (i # j /\ calls'[i] # calls[i]) => calls'[j] = calls[j]
        /\ Contents(heap', pfargs') = Contents(heap, pfargs) \/ pfargs = NilSlice ]_vars

\* Both calls run at once, each with its own URL, one with a request in
\* flight and the other with its debounce timer armed.
C22_Witness ==
    /\ calls # <<>>
    /\ calls[1].pc = "running"
    /\ calls[2].pc = "running"
    /\ calls[1].argv[Len(calls[1].argv)] = "u1"
    /\ calls[2].argv[Len(calls[2].argv)] = "u2"
    /\ calls[1].count = 1
    /\ calls[2].count = 0
    /\ calls[2].renderTimeout

\* ------------------------------------------------- the extractors' claims
\* Extract returned, without a panic.
XReturned == xpc \in {"returned", "failed", "stored"}

\* Extract returned a value: no error and no omission.
XValue == XReturned /\ xret.err = NoErr /\ xret.val # NilValue

\* The values extract.Regex or extract.Attr collected over the selection.
Collected ==
    IF extractor.kind = "extract.Attr" THEN AttrEach(extractor, selection)
    ELSE RegexEach(extractor, RegexConfig(extractor).subexp, selection,
                   [panic |-> FALSE, results |-> <<>>]).results

\* C23: when extract.Regex or extract.Attr returns a value, it is the bare
\* string if exactly one value was collected and AlwaysReturnList is false,
\* and otherwise the list of all the collected values in the order of
\* collection, a list of one included.
C23_BareStringOrList ==
    (XValue /\ extractor.kind \in {"extract.Regex", "extract.Attr"}) =>
        IF Len(Collected) = 1 /\ ~extractor.AlwaysReturnList
        THEN xret.val = StringValue(Collected[1])
        ELSE xret.val = ListValue(Collected)

\* The pattern ([0-9]+) over <span>42</span>, one run of digits, without
\* AlwaysReturnList: the bare string 42 is returned and stored.
C23_Witness ==
    /\ xpc = "stored"
    /\ extractor.kind = "extract.Regex"
    /\ extractor.Regex = [expr |-> "([0-9]+)"]
    /\ ~extractor.AlwaysReturnList
    /\ selection = <<Span42>>
    /\ xret.val = StringValue(<<"4", "2">>)
    /\ xblock[XPieceName] = StringValue(<<"4", "2">>)

\* The extractor's configuration passes Extract's checks.
ConfigOK ==
    CASE extractor.kind = "extract.Regex" -> RegexConfig(extractor).err = NoErr
      [] extractor.kind = "extract.Attr" -> Len(extractor.Attr) > 0
      [] OTHER -> TRUE

\* Nothing to collect: no element for MultipleText and Count, no element
\* with the attribute for Attr, no match in any element for Regex.
NothingCollected ==
    CASE extractor.kind \in {"extract.MultipleText", "extract.Count"} ->
            Len(selection) = 0
      [] extractor.kind = "extract.Attr" ->
            \A k \in 1 .. Len(selection) :
                \A a \in 1 .. Len(selection[k].attr) :
                    selection[k].attr[a].key # extractor.Attr
      [] extractor.kind = "extract.Regex" ->
            \A k \in 1 .. Len(selection) :
                /\ extractor.OnlyText =>
                    \A c \in 1 .. Len(NodeText(selection[k])) :
                        NodeText(selection[k])[c] \notin Digits
                /\ ~extractor.OnlyText =>
                    \A c \in 1 .. Len(ElementHtml(selection[k])) :
                        ElementHtml(selection[k])[c] \notin Digits

\* The empty result of each: the empty list, and 0 for Count.
EmptyResult ==
    IF extractor.kind = "extract.Count" THEN IntValue(0) ELSE ListValue(<<>>)

\* C24: when extract.Regex, Attr, MultipleText or Count has nothing to
\* collect, then with OmitIfEmpty Extract returns nil and the Piece's name
\* is absent from the block's mapping, and without it Extract returns the
\* empty list (0 for Count) and the mapping has it under the Piece's name.
C24_OmitIfEmpty ==
    ( /\ extractor.kind \in {"extract.Regex", "extract.Attr",
                              "extract.MultipleText", "extract.Count"}
      /\ xpc # "called"
      /\ ConfigOK
      /\ NothingCollected ) =>
        /\ xpc \in {"returned", "stored"}
        /\ xret.err = NoErr
        /\ xret.val = (IF extractor.OmitIfEmpty THEN NilValue ELSE EmptyResult)
        /\ xpc = "stored" =>
            IF extractor.OmitIfEmpty
            THEN XPieceName \notin DOMAIN xblock
            ELSE /\ XPieceName \in DOMAIN xblock
                 /\ xblock[XPieceName] = EmptyResult

\* Attr with OmitIfEmpty for href over <span>42</span>, which has no href:
\* Scrape went on without the Piece's name in the mapping.
C24_Witness ==
    /\ xpc = "stored"
    /\ extractor.kind = "extract.Attr"
    /\ extractor.Attr = <<"h", "r", "e", "f">>
    /\ extractor.OmitIfEmpty
    /\ selection = <<Span42>>
    /\ xret = Returned(NilValue, NoErr)
    /\ xblock = EmptyMap

\* C25 as stated: a Piece with extract.Const never fails and never omits;
\* whatever the selection and whatever the configured value, the block's
\* mapping has the configured value under the Piece's name.
C25_ConstAlwaysPresent ==
    (extractor.kind = "extract.Const" /\ xpc # "called") =>
        /\ xpc \in {"returned", "stored"}
        /\ xret = Returned(extractor.Val, NoErr)
        /\ xpc = "stored" =>
            /\ XPieceName \in DOMAIN xblock
            /\ xblock[XPieceName] = extractor.Val

\* C25: a Piece with extract.Const never fails, and Extract returns the
\* configured value whatever the selection; the block's mapping has that
\* value under the Piece's name unless the configured value is nil, which
\* Scrape takes for the omission signal and leaves out.
C25_ConstPresentUnlessNil ==
    (extractor.kind = "extract.Const" /\ xpc # "called") =>
        /\ xpc \in {"returned", "stored"}
        /\ xret = Returned(extractor.Val, NoErr)
        /\ xpc = "stored" =>
            IF extractor.Val = NilValue
            THEN XPieceName \notin DOMAIN xblock
            ELSE /\ XPieceName \in DOMAIN xblock
                 /\ xblock[XPieceName] = extractor.Val

\* A Const with a string, called on a selection of no element: the string
\* is in the mapping.
C25_Witness ==
    /\ xpc = "stored"
    /\ extractor.kind = "extract.Const"
    /\ extractor.Val = StringValue(<<"c">>)
    /\ selection = <<>>
    /\ xblock[XPieceName] = StringValue(<<"c">>)

\* The first group of every match of the extractor's regex, element by
\* element.
RECURSIVE FirstGroups(_, _)
FirstGroups(e, sel) ==
    IF sel = <<>> THEN <<>>
    ELSE LET contents == IF e.OnlyText THEN NodeText(sel[1]) ELSE ElementHtml(sel[1])
             m == FindAllStringSubmatch(e.Regex, contents)
         IN [k \in 1 .. Len(m) |-> m[k][2]] \o FirstGroups(e, Tail(sel))

\* C26: whatever the selection, extract.Regex returns an error of
\* configuration when Regex is nil, when the pattern has no group, and when
\* it has several groups and Subexpression is 0; with exactly one group and
\* Subexpression 0 it returns no error and what it returns is made of the
\* first group of each match.
C26_RegexConfigErrors ==
    (extractor.kind = "extract.Regex" /\ xpc # "called") =>
        IF extractor.Regex = NilRegexp
        THEN xpc \in {"returned", "failed"} /\ xret = Returned(NilValue, "no regex given")
        ELSE /\ NumSubexp(extractor.Regex) = 0 =>
                    /\ xpc \in {"returned", "failed"}
                    /\ xret = Returned(NilValue, "regex has no subexpressions")
             /\ (NumSubexp(extractor.Regex) > 1 /\ extractor.Subexpression = 0) =>
                    /\ xpc \in {"returned", "failed"}
                    /\ xret = Returned(NilValue, "regex has more than one subexpression")
             /\ (NumSubexp(extractor.Regex) = 1 /\ extractor.Subexpression = 0) =>
                    LET g == FirstGroups(extractor, selection)
                    IN /\ xpc \in {"returned", "stored"}
                       /\ xret.err = NoErr
                       /\ xret.val =
                            (IF Len(g) = 0 /\ extractor.OmitIfEmpty THEN NilValue
                             ELSE IF Len(g) = 1 /\ ~extractor.AlwaysReturnList
                                 THEN StringValue(g[1])
                             ELSE ListValue(g))

\* A pattern of two groups with Subexpression left at 0: Scrape fails on
\* the error, though the selection has a match.
C26_Witness ==
    /\ xpc = "failed"
    /\ extractor.kind = "extract.Regex"
    /\ extractor.Regex = [expr |-> "([0-9])([0-9]*)"]
    /\ extractor.Subexpression = 0
    /\ selection = <<Span42>>
    /\ xret.err = "regex has more than one subexpression"

\* The extractors of package extract.
ExtractKinds ==
    {"extract.Const", "extract.Text", "extract.MultipleText", "extract.Html",
     "extract.OuterHtml", "extract.Regex", "extract.Attr", "extract.Count"}

\* C27: every extractor of package extract is total: whatever its
\* configuration, every explicit Subexpression of extract.Regex included,
\* and whatever the selection, Extract returns a value, nil or an error, and
\* never panics on an index out of range.
C27_ExtractTotal ==
    (extractor.kind \in ExtractKinds /\ xpc # "called") =>
        /\ xpc \in {"returned", "failed", "stored"}
        /\ DOMAIN xret = {"val", "err"}

\* C28: scrape.RegexExtractor, when its regex has exactly one match over
\* the selection and AlwaysReturnList is false, returns the match itself
\* and not a list.
C28_SingleMatchItself ==
    ( /\ extractor.kind = "scrape.RegexExtractor"
      /\ xpc # "called"
      /\ extractor.Regex # NilRegexp
      /\ NumSubexp(extractor.Regex) = 1
      /\ Len(FirstGroups(extractor, selection)) = 1
      /\ ~extractor.AlwaysReturnList ) =>
        /\ xpc \in {"returned", "stored"}
        /\ xret = Returned(StringValue(FirstGroups(extractor, selection)[1]), NoErr)

\* The inner-HTML extractor of the same package as the extractor at hand.
InnerOf(kind) ==
    IF kind = "extract.OuterHtml" THEN [kind |-> "extract.Html"]
    ELSE [kind |-> "scrape.HtmlExtractor"]

\* The markup of <div><b>ONE</b></div><p><i>TWO</i></p>, written out.
DivOnePTwo ==
    <<"<", "d", "i", "v", ">", "<", "b", ">", "O", "N", "E", "<", "/", "b", ">",
      "<", "/", "d", "i", "v", ">",
      "<", "p", ">", "<", "i", ">", "T", "W", "O", "<", "/", "i", ">", "<", "/", "p", ">">>

\* C29: extract.OuterHtml and scrape.OuterHtmlExtractor return, joined in
\* the order of the selection, the markup of each element with the element's
\* own tag; for the selection <div><b>ONE</b></div>, <p><i>TWO</i></p> that
\* is <div><b>ONE</b></div><p><i>TWO</i></p>, which is not what the
\* inner-HTML extractor of the package returns.
C29_OuterHtmlOwnTag ==
    ( /\ extractor.kind \in {"extract.OuterHtml", "scrape.OuterHtmlExtractor"}
      /\ xpc # "called" ) =>
        /\ xpc \in {"returned", "stored"}
        /\ xret = Returned(StringValue(RenderAll(selection)), NoErr)
        /\ selection = <<DivOne, PTwo>> =>
            /\ xret.val = StringValue(DivOnePTwo)
            /\ xret # PieceExtractorExtract(InnerOf(extractor.kind), selection)

\* C30: the results of a successful Scrape have at least one URL, the first
\* being the URL Scrape was called with, and at least one page of Results,
\* so First indexes within range; First returns nil exactly when the first
\* page was divided into no block, and otherwise the mapping built from the
\* Extract calls for the first block of the first page.
C30_FirstInRange ==
    (spc = "done" /\ ret.err = NoErr) =>
        /\ ret.res # NilRes
        /\ Len(ret.res.URLs) >= 1
        /\ Len(ret.res.Results) >= 1
        /\ ret.res.URLs[1] = StartURL
        /\ First(ret.res) # Panicked
        /\ First(ret.res) = NilMap <=> BlockCount(1) = 0
        /\ BlockCount(1) > 0 => Accounts(First(ret.res), 1, 1)

\* A successful scrape of two pages, the first without a block and the
\* second with blocks: First returns nil.
C30_Witness ==
    /\ spc = "done"
    /\ ret.err = NoErr
    /\ Len(ret.res.Results) = 2
    /\ Len(ret.res.Results[1]) = 0
    /\ Len(ret.res.Results[2]) > 0
    /\ First(ret.res) = NilMap

\* C39: Scrape called with the empty URL returns nil results and an error,
\* and has called none of Prepare, Fetch, DividePage, NextPage and Extract.
C39_EmptyURLRefused ==
    (log # <<>> /\ StartURL = "") =>
        /\ spc = "done"
        /\ ret.res = NilRes
        /\ ret.err # NoErr
        /\ \A op \in {"Prepare", "Fetch", "Parse", "DividePage", "NextPage", "Extract"} :
            Calls(op) = {}

\* Scrape was called with the empty URL and has returned its error.
C39_Witness ==
    /\ spc = "done"
    /\ log # <<>>
    /\ StartURL = ""
    /\ ret = [res |-> NilRes, err |-> "no URL provided"]

\* C34: at the start of an iteration of Scrape's loop, after the page's
\* block list was appended and at a successful return, URLs and Results have
\* the same length; from the append of the page's URL to the append of its
\* block list URLs is longer by one; and the two change only by the append
\* of one element at the end, one of them at a time.
C34_LengthsInStep ==
    /\ [](res # NilRes =>
            /\ spc \in {"fetch", "parse", "nextpage"} =>
                    Len(res.URLs) = Len(res.Results)
            /\ spc \in {"divide", "extract"} =>
                    Len(res.URLs) = Len(res.Results) + 1
            /\ (spc = "done" /\ ret.err = NoErr) =>
                    /\ ret.res = res
                    /\ Len(ret.res.URLs) = Len(ret.res.Results))
    /\ [][ (res # NilRes /\ res' # res) =>
            \/ /\ Len(res'.URLs) = Len(res.URLs) + 1
               /\ SubSeq(res'.URLs, 1, Len(res.URLs)) = res.URLs
               /\ res'.Results = res.Results
            \/ /\ Len(res'.Results) = Len(res.Results) + 1
               /\ SubSeq(res'.Results, 1, Len(res.Results)) = res.Results
               /\ res'.URLs = res.URLs ]_vars

\* The second page's URL is appended and its block list is not yet.
C34_Witness ==
    /\ spc = "extract"
    /\ Len(res.URLs) = 2
    /\ Len(res.Results) = 1

\* C35: the entry of Results for a visited page holds one mapping for each
\* block DividePage returned, in DividePage's order; a block whose Pieces
\* were all omitted has the empty mapping there; and a page of no block has
\* the empty list, counts as a page, and NextPage is called for it next.
C35_OneMappingPerBlock ==
    /\ res # NilRes =>
        \A p \in 1 .. Len(res.Results) :
            /\ Len(res.Results[p]) = BlockCount(p)
            /\ \A j \in 1 .. BlockCount(p) :
                /\ Accounts(res.Results[p][j], p, j)
                /\ Valued(p, j) = {} => DOMAIN res.Results[p][j] = {}
    /\ \A i \in Calls("DividePage") :
        log[i].n = 0 =>
            /\ Len(res.Results) >= log[i].page
            /\ res.Results[log[i].page] = <<>>
            /\ IF i = Len(log)
               THEN spc = "nextpage"
               ELSE /\ log[i + 1].op = "NextPage"
                    /\ log[i + 1].page = log[i].page

\* A first page of no block was followed by a second page whose one block
\* had every Piece omitted: an empty list, then a list of one empty mapping.
C35_Witness ==
    /\ res # NilRes
    /\ Len(res.Results) = 2
    /\ res.Results[1] = <<>>
    /\ Len(res.Results[2]) = 1
    /\ DOMAIN res.Results[2][1] = {}
    /\ Len(res.URLs) = 2

\* C36: the stream of every successful Fetch of a Scrape is closed exactly
\* once, right after the parse of it, whether the parse failed or not, and
\* so before any DividePage, Extract or later Fetch; nothing else is closed.
C36_StreamClosedOnce ==
    /\ \A i \in Calls("Fetch") :
        log[i].err = NoErr =>
            LET closes == { k \in Calls("Close") : log[k].page = log[i].page }
            IN IF i = Len(log)
               THEN closes = {} /\ spc = "parse"
               ELSE /\ log[i + 1].op = "Parse"
                    /\ log[i + 1].page = log[i].page
                    /\ closes = {i + 2}
    /\ \A k \in Calls("Close") :
        /\ k > 2
        /\ log[k - 1].op = "Parse"
        /\ log[k - 2].op = "Fetch"
        /\ log[k - 2].err = NoErr
        /\ log[k - 2].page = log[k].page

\* The parse of the second page failed, and its stream was closed.
C36_Witness ==
    /\ spc = "done"
    /\ Len(log) > 2
    /\ log[Len(log)].op = "Close"
    /\ log[Len(log)].page = 2
    /\ log[Len(log) - 1].op = "Parse"
    /\ log[Len(log) - 1].err # NoErr

\* The log ends with what ends a Scrape: the refusal of an empty URL, an
\* error of Prepare, Fetch, the parse or Extract, or NextPage's empty string.
EndsScrape ==
    /\ log # <<>>
    /\ LET e == log[Len(log)]
       IN \/ e.op = "Scrape" /\ e.url = ""
          \/ e.op \in {"Prepare", "Fetch", "Extract"} /\ e.err # NoErr
          \/ e.op = "Close" /\ log[Len(log) - 1].err # NoErr
          \/ e.op = "NextPage" /\ e.url = ""

\* C33: Scrape has returned exactly when NextPage returned the empty string
\* or a step returned an error.  Whatever URL NextPage returns, visited
\* before or not, is fetched next, and once fetched and parsed it is
\* appended to URLs, again if it was there: while NextPage returns URLs and
\* no step fails, Scrape goes on, round a cycle as along a chain.
C33_EndsOnlyOnEmptyOrError ==
    /\ spc = "done" <=> EndsScrape
    /\ \A i \in Calls("NextPage") :
        log[i].url # "" =>
            IF i = Len(log)
            THEN spc = "fetch" /\ url = log[i].url
            ELSE /\ log[i + 1].op = "Fetch"
                 /\ log[i + 1].url = log[i].url
                 /\ log[i + 1].page = log[i].page + 1
    /\ res # NilRes =>
        \A p \in 1 .. Len(res.URLs) :
            \E i \in Calls("Fetch") :
                /\ log[i].page = p
                /\ log[i].err = NoErr
                /\ log[i].url = res.URLs[p]
    /\ \A i \in Calls("Parse") :
        log[i].err = NoErr =>
            /\ res # NilRes
            /\ Len(res.URLs) >= log[i].page

\* NextPage of the first page returned the first page's own URL: it was
\* fetched again and is in URLs twice, and Scrape has not returned.
C33_Witness ==
    /\ spc = "divide"
    /\ res.URLs = <<"u1", "u1">>
    /\ Len(res.Results) = 1

\* C37: the script's count is the number of requests it was told of less
\* the number of completed responses it was told of, which is the number of
\* the browser's requests in flight; it is never negative; at most one
\* debounce timer is pending; and while one is pending count is zero.
C37_CountIsInFlight ==
    /\ count = outstanding
    /\ count >= 0
    /\ Cardinality(DebouncePending) <= 1
    /\ DebouncePending # {} => count = 0

\* A request has completed and the debounce timer its response armed is
\* pending with count at zero, while the page still loads.
C37_Witness ==
    /\ Running
    /\ last = "received, timer armed"
    /\ count = 0
    /\ Cardinality(DebouncePending) = 1
    /\ nav = "loading"

\* The timer of the hard deadline is pending.
ForcedPending == { t \in timers : t.fn = "forced" }

\* C32: the hard-deadline timer is armed once the load of the page begins:
\* while the script runs and no render was made, it is pending, also while
\* the navigation has not completed, so that a hard-deadline render can be
\* made from there.
C32_DeadlineArmedAtLoad ==
    (Running /\ ~closed /\ renders = <<>>) => ForcedPending # {}

\* C38: New leaves the caller's config as it was, and once New has
\* returned nothing the caller does to its config, a write to an element of
\* its Pieces included, changes the configuration the Scraper works with: it
\* stays the one New validated.
C38_ScraperConfigFixed ==
    NewReturnedScraper =>
        /\ nret.scraper.config = nconfig
        /\ WellFormed(nret.scraper.config.Pieces)


\* The first pages, k at most, that following p from u visits: p's next page
\* of u, then of that page, until p returns the empty string.
RECURSIVE Follow(_, _, _)
Follow(p, u, k) ==
    IF k = 0 THEN <<>>
    ELSE LET n == SubNextPage(p, u)
         IN IF n = EmptyString THEN <<>> ELSE <<n>> \o Follow(p, n, k - 1)

Smaller(a, b) == IF a <= b THEN a ELSE b

====
